---- MODULE Spec2Model ----
(***************************************************************************)
(* LauncherCore: the Microsoft authentication chain of src/src/auth.rs.    *)
(*                                                                         *)
(* Authenticator::perform_full_authentication awaits, in order, the        *)
(* device-code request and its poll loop (authenticate_with_msa), the XBL  *)
(* exchange, the XSTS exchange, the Minecraft login and the profile fetch, *)
(* and then formats the AuthCache.  MinecraftLauncher in src/src/main.rs   *)
(* (320-553) holds the same functions line for line.  Each await is one    *)
(* action.  Time is                                                        *)
(* counted in ticks of 1/TicksPerSec second; the servers' answers, the     *)
(* transport failures and the scheduling delays are nondeterministic.      *)
(***************************************************************************)
EXTENDS Integers, Sequences, FiniteSets, TLC

(* ------------------------------- bounds -------------------------------- *)
TicksPerSec == 2
MaxExpires == 3
MaxInterval == 2
MaxDelay == 1
MaxIdLen == 36
MaxRot == 3
MaxSlashes == 2
MaxCalls == 2
MaxSaves == 2
MaxFetches == 2
MaxPrompts == 3

(* ---------------------------- input domains ---------------------------- *)
ClientIds == {"YOUR_AZURE_CLIENT_ID"}
DeviceCodes == {"d1"}
MsTokens == {"msa-tok"}
XblTokens == {"xbl-tok"}
XstsTokens == {"xsts-tok"}
McTokens == {"mc-tok", "mc-tok-2"}
XblXuis == {<<>>, <<"uhs-xbl">>, <<"uhs-xbl-2", "uhs-xbl">>}
XstsXuis == {<<>>, <<"uhs-xsts">>}
LoginNames == {"Alex"}
ProfileNames == {"Steve", "Alex"}

(* strings the code slices are sequences of one-character strings *)
ExampleId ==
    <<"0","1","2","3","4","5","6","7","8","9","a","b","c","d","e","f",
      "0","1","2","3","4","5","6","7","8","9","a","b","c","d","e","f">>
ExampleUuid ==
    <<"0","1","2","3","4","5","6","7","-","8","9","a","b","-","c","d","e","f",
      "-","0","1","2","3","-","4","5","6","7","8","9","a","b","c","d","e","f">>
OtherId ==
    <<"f","e","d","c","b","a","9","8","7","6","5","4","3","2","1","0",
      "0","0","1","1","2","2","3","3","4","4","5","5","6","6","7","7">>
ShortId == <<"0","1","2","3","4","5","6","7","8","9","a","b","c","d","e","f">>

(* Strings are sequences of bytes.  The ASCII bytes are written as the     *)
(* character; LeadByte, ContByte are the two bytes of one non-ASCII        *)
(* character (U+00E9 is C3 A9 in UTF-8).                                   *)
HexDigits == <<"0","1","2","3","4","5","6","7","8","9","a","b","c","d","e","f">>
LeadByte == "<C3>"
ContByte == "<A9>"
OddBytes == {"-", "g"}

(* a string of len hex digits, starting at the digit rot *)
HexString(len, rot) == [i \in 1..len |-> HexDigits[((i - 1 + rot) % 16) + 1]]
WithByte(str, pos, b) == [str EXCEPT ![pos] = b]
WithWideChar(str, pos) == [str EXCEPT ![pos] = LeadByte, ![pos + 1] = ContByte]

(* the id strings a provider may send *)
IdStrings ==
    {HexString(len, rot) : len \in 0..MaxIdLen, rot \in 0..MaxRot}
    \cup UNION {{WithByte(HexString(len, 0), pos, b) : pos \in 1..len, b \in OddBytes} :
                    len \in 1..MaxIdLen}
    \cup UNION {{WithWideChar(HexString(len, 0), pos) : pos \in 1..(len - 1)} :
                    len \in 2..MaxIdLen}
    \cup {ExampleUuid}

NonHexId == WithByte(ExampleId, 5, "g")
WideId == WithWideChar(ExampleId, 8)
ProfileIds == {ExampleId, OtherId, ShortId, ExampleUuid, NonHexId, WideId}

(* the three XErr codes get_xsts_token looks for *)
XERR_NO_XBOX == "2148916233"
XERR_CHILD == "2148916238"
XERR_REGION == "2148916235"

PENDING == "authorization_pending"
SLOW_DOWN == "slow_down"
EXPIRED_TOKEN == "expired_token"
ErrorCodes == {PENDING, SLOW_DOWN, EXPIRED_TOKEN, "invalid_grant"}

Max(a, b) == IF a >= b THEN a ELSE b

(* reqwest StatusCode::is_success: 200..=299 *)
is_success(status) == status >= 200 /\ status <= 299

(* A response body.  kind says what the bytes are:                         *)
(*   "unreadable"  res.text()/res.json() fails while reading the body      *)
(*   "not_json"    text that is not JSON                                   *)
(*   "json_other"  JSON without a string field error (and not the struct   *)
(*                 the endpoint's success deserialises to)                 *)
(*   "json_error"  JSON object whose field error is the string `error`     *)
(*   "struct"      JSON that deserialises to the endpoint's success struct *)
(* `val` is the deserialised struct when kind = "struct".                  *)
NoVal == [k |-> "none"]
Body(kind, error, val) == [kind |-> kind, error |-> error, val |-> val]
EmptyBody == Body("not_json", "", NoVal)
UnknownErrorBody == Body("not_json", "Unknown error", NoVal)

PlainBodies ==
    {Body("unreadable", "", NoVal), Body("not_json", "", NoVal),
     Body("json_other", "", NoVal)}
ErrorBodies == {Body("json_error", c, NoVal) : c \in ErrorCodes}

(* DeviceCodeResponse, models.rs *)
DeviceCodeStructs ==
    {[k |-> "device", device_code |-> d, expires_in |-> e, interval |-> i] :
        d \in DeviceCodes, e \in 0..MaxExpires, i \in 0..MaxInterval}
(* MicrosoftTokenResponse, models.rs *)
TokenStructs == {[k |-> "token", access_token |-> t] : t \in MsTokens}
(* XblResponse, XstsResponse, models.rs *)
XblStructs == {[k |-> "xbl", token |-> t, xui |-> x] : t \in XblTokens, x \in XblXuis}
XstsStructs == {[k |-> "xsts", token |-> t, xui |-> x] : t \in XstsTokens, x \in XstsXuis}
(* MinecraftLoginResponse, models.rs *)
McLoginStructs ==
    {[k |-> "mc_login", username |-> u, access_token |-> t] :
        u \in LoginNames, t \in McTokens}
(* MinecraftProfile, models.rs *)
ProfileStructs ==
    {[k |-> "profile", id |-> i, name |-> n] : i \in ProfileIds, n \in ProfileNames}

Response(status, body) == [status |-> status, body |-> body]
(* send() returned Err: there is no response *)
NoResponse == Response(0, Body("not_json", "", [k |-> "none"]))

DeviceCodeResponses ==
    {Response(200, Body("struct", "", v)) : v \in DeviceCodeStructs}
    \cup {Response(s, b) : s \in {200, 400, 500}, b \in PlainBodies}

PollResponses ==
    {Response(200, Body("struct", "", v)) : v \in TokenStructs}
    \cup {Response(s, b) : s \in {200, 400, 500}, b \in PlainBodies}
    \cup {Response(s, b) : s \in {400, 403}, b \in ErrorBodies}

(* a non-JSON-classified text body, known by the XErr codes it contains *)
TextBody(codes) == Body("not_json", "", [k |-> "text", contains |-> codes])
XstsErrorBodies ==
    {TextBody(c) : c \in {{XERR_NO_XBOX}, {XERR_CHILD}, {XERR_REGION},
                           {XERR_CHILD, XERR_REGION},
                           {XERR_NO_XBOX, XERR_CHILD, XERR_REGION}}}

StepResponses(structs) ==
    {Response(200, Body("struct", "", v)) : v \in structs}
    \cup {Response(s, b) : s \in {200, 403, 500}, b \in PlainBodies}
XblResponses == StepResponses(XblStructs)
XstsResponses ==
    StepResponses(XstsStructs)
    \cup {Response(s, b) : s \in {403, 500}, b \in XstsErrorBodies}
McLoginResponses == StepResponses(McLoginStructs)
ProfileResponses == StepResponses(ProfileStructs)

(* ------------------------------ results -------------------------------- *)
(* anyhow errors: stage = the function that built it, kind = which message *)
Err(stage, kind, status, code, body) ==
    [tag |-> "err", stage |-> stage, kind |-> kind, status |-> status,
     code |-> code, body |-> body]
Ok(val) == [tag |-> "ok", val |-> val]
Continue == [tag |-> "continue"]
Running == [tag |-> "running"]

(* send().await? : the request got no response *)
TransportErr(stage) == Err(stage, "transport", 0, "", EmptyBody)
(* res.json().await? : the body is not the expected struct *)
DecodeErr(stage) == Err(stage, "decode", 0, "", EmptyBody)

(* res.text().await.unwrap_or_else(|_| "Unknown error".to_string()) *)
TextOrUnknown(body) ==
    IF body.kind = "unreadable" THEN UnknownErrorBody ELSE body
(* res.text().await.unwrap_or_default() *)
TextOrDefault(body) ==
    IF body.kind = "unreadable" THEN EmptyBody ELSE body

(* ------------------------- authenticate_with_msa ----------------------- *)
(* mutant: the status of the device-code response is not looked at *)
HandleDeviceCodeResponseNoStatusCheck(res) ==
    IF res.body.kind = "struct" THEN Ok(res.body.val)
    ELSE DecodeErr("device_code")

(* auth.rs 31-37: the outcome of the device-code response *)
HandleDeviceCodeResponse(res) ==
    IF ~is_success(res.status)
    THEN Err("device_code", "status", res.status, "", TextOrUnknown(res.body))
    ELSE IF res.body.kind = "struct" THEN Ok(res.body.val)
    ELSE DecodeErr("device_code")

(* mutant: the deadline is taken in minutes *)
TimeoutDurationInMinutes(expires_in) == expires_in * 60 * TicksPerSec
(* mutant: the interval is used as received, without max(1) *)
PollIntervalNoFloor(interval) == interval * TicksPerSec

(* auth.rs 47, in ticks *)
TimeoutDuration(expires_in) == expires_in * TicksPerSec
(* auth.rs 48, in ticks *)
PollInterval(interval) == Max(interval, 1) * TicksPerSec

(* auth.rs 51: start_time.elapsed() > timeout_duration *)
TimedOut(elapsed, timeout) == elapsed > timeout

(* auth.rs 69-77: the two arms that `continue` *)
ContinueCodes == {PENDING, SLOW_DOWN}

(* mutant: the error code decides whatever the status *)
HandlePollResponseAnyStatus(res) ==
    IF is_success(res.status)
    THEN IF res.body.kind = "struct" THEN Ok(res.body.val)
         ELSE DecodeErr("poll")
    ELSE LET error_body == TextOrDefault(res.body) IN
         IF error_body.kind = "json_error"
         THEN IF error_body.error \in ContinueCodes THEN Continue
              ELSE IF error_body.error = EXPIRED_TOKEN
              THEN Err("poll", "expired", 0, "", EmptyBody)
              ELSE Err("poll", "provider_code", 0, error_body.error, error_body)
         ELSE Err("poll", "status", res.status, "", error_body)

(* auth.rs 59-99: the outcome of one token-poll response *)
HandlePollResponse(res) ==
    IF is_success(res.status)
    THEN IF res.body.kind = "struct" THEN Ok(res.body.val)
         ELSE DecodeErr("poll")
    ELSE LET error_body == TextOrDefault(res.body) IN
         IF res.status = 400 /\ error_body.kind = "json_error"
         THEN IF error_body.error \in ContinueCodes THEN Continue
              ELSE IF error_body.error = EXPIRED_TOKEN
              THEN Err("poll", "expired", 0, "", EmptyBody)
              ELSE Err("poll", "provider_code", 0, error_body.error, error_body)
         ELSE Err("poll", "status", res.status, "", error_body)

(* mutant: slow_down backs off *)
IntervalDoubledOnSlowDown(code, interval) ==
    IF code = SLOW_DOWN THEN 2 * interval ELSE interval

(* auth.rs 70-77: what a `continue` arm leaves for the next iteration *)
IntervalAfterContinue(code, interval) == interval

(* ---------------------- the steps after the MSA ------------------------ *)
(* auth.rs 117-121, 201-205, 227-235: a non-2xx answer of a one-shot step *)
StatusErr(stage, res) ==
    Err(stage, "status", res.status, "", TextOrDefault(res.body))

(* mutant: the last entry is taken *)
LastUhs(stage, xui) ==
    IF Len(xui) = 0
    THEN Err(stage, "missing_user_hash", 0, "", EmptyBody)
    ELSE Ok(xui[Len(xui)])

(* auth.rs 125-131, 173-179: xui.first().ok_or_else(..)?.uhs *)
FirstUhs(stage, xui) ==
    IF Len(xui) = 0
    THEN Err(stage, "missing_user_hash", 0, "", EmptyBody)
    ELSE Ok(xui[1])

(* auth.rs 117-134: get_xbl_token, from its response on *)
HandleXblResponse(res) ==
    IF ~is_success(res.status) THEN StatusErr("xbl", res)
    ELSE IF res.body.kind # "struct" THEN DecodeErr("xbl")
    ELSE LET uhs == FirstUhs("xbl", res.body.val.xui) IN
         IF uhs.tag = "err" THEN uhs
         ELSE Ok([token |-> res.body.val.token, user_hash |-> uhs.val])

(* body.contains(code) *)
Contains(body, code) ==
    /\ body.val.k = "text"
    /\ code \in body.val.contains

(* mutant: the codes are looked for whatever the status *)
HandleXstsResponseAnyStatus(res) ==
    IF ~is_success(res.status)
    THEN LET body == TextOrDefault(res.body) IN
         IF Contains(body, XERR_NO_XBOX)
         THEN Err("xsts", "no_xbox_account", 0, XERR_NO_XBOX, EmptyBody)
         ELSE IF Contains(body, XERR_CHILD)
         THEN Err("xsts", "child_account", 0, XERR_CHILD, EmptyBody)
         ELSE IF Contains(body, XERR_REGION)
         THEN Err("xsts", "region_banned", 0, XERR_REGION, EmptyBody)
         ELSE Err("xsts", "status", res.status, "", body)
    ELSE IF res.body.kind # "struct" THEN DecodeErr("xsts")
    ELSE LET uhs == FirstUhs("xsts", res.body.val.xui) IN
         IF uhs.tag = "err" THEN uhs
         ELSE Ok([token |-> res.body.val.token, user_hash |-> uhs.val])

(* auth.rs 150-183: get_xsts_token, from its response on *)
HandleXstsResponse(res) ==
    IF ~is_success(res.status)
    THEN LET body == TextOrDefault(res.body) IN
         IF res.status = 403 /\ Contains(body, XERR_NO_XBOX)
         THEN Err("xsts", "no_xbox_account", 0, XERR_NO_XBOX, EmptyBody)
         ELSE IF res.status = 403 /\ Contains(body, XERR_CHILD)
         THEN Err("xsts", "child_account", 0, XERR_CHILD, EmptyBody)
         ELSE IF res.status = 403 /\ Contains(body, XERR_REGION)
         THEN Err("xsts", "region_banned", 0, XERR_REGION, EmptyBody)
         ELSE Err("xsts", "status", res.status, "", body)
    ELSE IF res.body.kind # "struct" THEN DecodeErr("xsts")
    ELSE LET uhs == FirstUhs("xsts", res.body.val.xui) IN
         IF uhs.tag = "err" THEN uhs
         ELSE Ok([token |-> res.body.val.token, user_hash |-> uhs.val])

(* auth.rs 201-212: login_to_minecraft, from its response on *)
HandleMcLoginResponse(res) ==
    IF ~is_success(res.status) THEN StatusErr("mc_login", res)
    ELSE IF res.body.kind # "struct" THEN DecodeErr("mc_login")
    ELSE Ok(res.body.val)

(* auth.rs 227-239: get_minecraft_profile, from its response on *)
HandleProfileResponse(res) ==
    IF ~is_success(res.status) THEN StatusErr("profile", res)
    ELSE IF res.body.kind # "struct" THEN DecodeErr("profile")
    ELSE Ok(res.body.val)

(* str::is_char_boundary: the byte index i starts a character or ends s *)
is_char_boundary(s, i) ==
    \/ i = 0
    \/ i = Len(s)
    \/ i < Len(s) /\ s[i + 1] # ContByte

(* &s[a..b]: the bytes a..b-1 (0-based); it panics when b > s.len() or an  *)
(* end is not a character boundary                                        *)
SliceOk(s, a, b) ==
    /\ a <= b /\ b <= Len(s)
    /\ is_char_boundary(s, a) /\ is_char_boundary(s, b)
Slice(s, a, b) == SubSeq(s, a + 1, b)

(* mutant: the third group is cut one byte late *)
FormattedUuidLateCut(id) ==
    Slice(id, 0, 8) \o <<"-">> \o Slice(id, 8, 12) \o <<"-">>
        \o Slice(id, 12, 17) \o <<"-">> \o Slice(id, 17, 20) \o <<"-">>
        \o Slice(id, 20, 32)

(* auth.rs 253-260: format!("{}-{}-{}-{}-{}", ..) *)
FormattedUuid(id) ==
    Slice(id, 0, 8) \o <<"-">> \o Slice(id, 8, 12) \o <<"-">>
        \o Slice(id, 12, 16) \o <<"-">> \o Slice(id, 16, 20) \o <<"-">>
        \o Slice(id, 20, 32)

(* mutant: the name comes from the login response *)
AuthCacheLoginName(login_res, prof) ==
    [access_token |-> login_res.access_token,
     uuid |-> FormattedUuid(prof.id),
     username |-> login_res.username]

(* auth.rs 262-266 *)
AuthCache(login_res, prof) ==
    [access_token |-> login_res.access_token,
     uuid |-> FormattedUuid(prof.id),
     username |-> prof.name]

(* the five slices of the format! arguments are all in range *)
UuidSlicesOk(id) ==
    /\ SliceOk(id, 0, 8) /\ SliceOk(id, 8, 12) /\ SliceOk(id, 12, 16)
    /\ SliceOk(id, 16, 20) /\ SliceOk(id, 20, 32)

Panic == [tag |-> "panic"]

(* auth.rs 253-266: a slice out of range panics *)
FormatSession(login_res, prof) ==
    IF UuidSlicesOk(prof.id)
    THEN Ok(AuthCache(login_res, prof))
    ELSE Panic

(* ------------------------------ yggdrasil.rs --------------------------- *)
(* yggdrasil.rs 18-31: format_uuid; Ok(the String) or the slicing panic *)
format_uuid(uuid) ==
    IF Len(uuid) = 32
    THEN IF UuidSlicesOk(uuid)
         THEN Ok(Slice(uuid, 0, 8) \o <<"-">> \o Slice(uuid, 8, 12) \o <<"-">>
                   \o Slice(uuid, 12, 16) \o <<"-">> \o Slice(uuid, 16, 20)
                   \o <<"-">> \o Slice(uuid, 20, 32))
         ELSE Panic
    ELSE Ok(uuid)

(* Option<T> *)
None == [tag |-> "none"]
Some(v) == [tag |-> "some", val |-> v]

(* YggdrasilProfile, YggdrasilUser, YggdrasilAuthenticateResponse, models.rs *)
YggIds == {ExampleId, ShortId, ExampleUuid, NonHexId, WideId}
YggProfile(id, name) == [id |-> id, name |-> name]
YggProfiles == {YggProfile(i, "Steve") : i \in YggIds} \cup {YggProfile(OtherId, "Alex")}
YggUsers == {[id |-> i, properties |-> <<>>] : i \in YggIds}
YggAvailable ==
    {<<>>} \cup {<<p>> : p \in YggProfiles}
    \cup {<<YggProfile(OtherId, "Alex"), p>> : p \in YggProfiles}
YggAuthResponses ==
    {[access_token |-> "ygg-access", client_token |-> "ygg-client",
      available_profiles |-> av, selected_profile |-> sp, user |-> u] :
        av \in YggAvailable,
        sp \in {None} \cup {Some(p) : p \in YggProfiles},
        u \in {None} \cup {Some(x) : x \in YggUsers}}

(* yggdrasil.rs 34-57: what select_profile can return for these profiles:  *)
(* the profile whose number was entered, or the error of stdout/stdin      *)
SelectOutcomes(profiles) ==
    {Ok(profiles[k]) : k \in 1..Len(profiles)}
    \cup {Err("select_profile", "io", 0, "", EmptyBody)}

(* mutant: the user id is stored as received *)
YggdrasilAccountRawUserId(api_url, server_name, identifier, response, sel, user) ==
    [api_url |-> api_url, server_name |-> server_name,
     identifier |-> identifier,
     uuid |-> format_uuid(sel.id).val,
     name |-> sel.name,
     access_token |-> response.access_token,
     client_token |-> response.client_token,
     user_id |-> user.id,
     user_properties |-> user.properties]

(* yggdrasil.rs 276-286: the struct literal *)
YggdrasilAccount(api_url, server_name, identifier, response, sel, user) ==
    [api_url |-> api_url, server_name |-> server_name,
     identifier |-> identifier,
     uuid |-> format_uuid(sel.id).val,
     name |-> sel.name,
     access_token |-> response.access_token,
     client_token |-> response.client_token,
     user_id |-> format_uuid(user.id).val,
     user_properties |-> user.properties]

(* mutant: the selector's pick is taken whenever profiles are available *)
from_auth_response_preferring_available(api_url, server_name, identifier, response, picked) ==
    LET selected ==
            IF response.available_profiles # <<>> THEN picked
            ELSE IF response.selected_profile.tag = "some"
            THEN Ok(response.selected_profile.val)
            ELSE Err("from_auth_response", "no_profiles", 0, "", EmptyBody)
    IN  IF selected.tag = "err" THEN selected
        ELSE IF response.user.tag = "none"
        THEN Err("from_auth_response", "no_user_info", 0, "", EmptyBody)
        ELSE IF format_uuid(selected.val.id).tag = "panic"
                \/ format_uuid(response.user.val.id).tag = "panic"
        THEN Panic
        ELSE Ok(YggdrasilAccount(api_url, server_name, identifier, response,
                                 selected.val, response.user.val))

(* yggdrasil.rs 246-287: from_auth_response_with_profile_selection;       *)
(* `picked` is what select_profile returns if it is called                *)
from_auth_response_with_profile_selection(api_url, server_name, identifier, response, picked) ==
    LET selected ==
            IF response.selected_profile.tag = "some"
            THEN Ok(response.selected_profile.val)
            ELSE IF response.available_profiles = <<>>
            THEN Err("from_auth_response", "no_profiles", 0, "", EmptyBody)
            ELSE picked
    IN  IF selected.tag = "err" THEN selected
        ELSE IF response.user.tag = "none"
        THEN Err("from_auth_response", "no_user_info", 0, "", EmptyBody)
        ELSE IF format_uuid(selected.val.id).tag = "panic"
                \/ format_uuid(response.user.val.id).tag = "panic"
        THEN Panic
        ELSE Ok(YggdrasilAccount(api_url, server_name, identifier, response,
                                 selected.val, response.user.val))

(* whether from_auth_response_with_profile_selection calls select_profile *)
CallsSelectProfile(response) ==
    /\ response.selected_profile.tag = "none"
    /\ response.available_profiles # <<>>

(* ------------------------ resolve_api_url: strings --------------------- *)
HTTP == <<"h", "t", "t", "p", ":", "/", "/">>
HTTPS == <<"h", "t", "t", "p", "s", ":", "/", "/">>
SLASH == "/"
SPACE == " "

starts_with(str, prefix) ==
    /\ Len(str) >= Len(prefix)
    /\ SubSeq(str, 1, Len(prefix)) = prefix

RECURSIVE trim_end_matches(_, _)
trim_end_matches(str, c) ==
    IF str # <<>> /\ str[Len(str)] = c
    THEN trim_end_matches(SubSeq(str, 1, Len(str) - 1), c)
    ELSE str

RECURSIVE trim_start(_)
trim_start(str) ==
    IF str # <<>> /\ str[1] = SPACE THEN trim_start(Tail(str)) ELSE str

(* str::trim: whitespace is taken off both ends *)
trim(str) == trim_start(trim_end_matches(str, SPACE))

HasScheme(str) == starts_with(str, HTTP) \/ starts_with(str, HTTPS)

(* yggdrasil.rs 75-80: the URL the request is sent to *)
RequestUrl(initial_url) ==
    LET url == trim_end_matches(trim(initial_url), SLASH) IN
    IF ~HasScheme(url) THEN HTTPS \o url ELSE url

(* yggdrasil.rs 66-71: YggdrasilAuthenticator::new(api_url).api_url *)
new_api_url(api_url) == trim_end_matches(api_url, SLASH)

(* --------------------------- the url crate ----------------------------- *)
(* Url of an http(s) URL without userinfo, port number, query or fragment *)
HostChars == {"a", "b", "c", "h", "t", "p", "s", "."}
PathChars == {"a", "b", "c", "x", "y", "i", "p", "/"}

SchemeOf(str) == IF starts_with(str, HTTPS) THEN HTTPS ELSE HTTP
AfterScheme(str) == SubSeq(str, Len(SchemeOf(str)) + 1, Len(str))
(* the index of the first "/" of str, Len(str) + 1 when it has none *)
FirstSlash(str) ==
    IF \E i \in 1..Len(str) : str[i] = SLASH
    THEN CHOOSE i \in 1..Len(str) :
            str[i] = SLASH /\ \A j \in 1..(i - 1) : str[j] # SLASH
    ELSE Len(str) + 1
AuthorityOf(str) == SubSeq(AfterScheme(str), 1, FirstSlash(AfterScheme(str)) - 1)
(* an empty port ("host:") is the default port *)
HostOf(str) ==
    LET auth == AuthorityOf(str) IN
    IF auth # <<>> /\ auth[Len(auth)] = ":"
    THEN SubSeq(auth, 1, Len(auth) - 1) ELSE auth
PathOf(str) ==
    LET rest == AfterScheme(str)
        path == SubSeq(rest, FirstSlash(rest), Len(rest))
    IN  IF path = <<>> THEN <<SLASH>> ELSE path

(* Url::parse(str).is_ok() *)
ValidUrl(str) ==
    /\ HasScheme(str)
    /\ HostOf(str) # <<>>
    /\ \A i \in 1..Len(HostOf(str)) : HostOf(str)[i] \in HostChars
    /\ \A i \in 1..Len(PathOf(str)) : PathOf(str)[i] \in PathChars

(* Url::parse(str), for a valid str *)
UrlParse(str) == [scheme |-> SchemeOf(str), host |-> HostOf(str), path |-> PathOf(str)]

(* Url::to_string: an empty path is written "/" *)
UrlToString(u) == u.scheme \o u.host \o u.path

(* the path of the base up to and including its last "/" *)
RECURSIVE DirOf(_)
DirOf(path) ==
    IF path = <<>> \/ path[Len(path)] = SLASH THEN path
    ELSE DirOf(SubSeq(path, 1, Len(path) - 1))

(* Url::join(reference): an absolute URL, an absolute path, or a path    *)
(* relative to the base's directory                                       *)
UrlJoin(base, reference) ==
    IF HasScheme(reference)
    THEN IF ValidUrl(reference) THEN Ok(UrlParse(reference))
         ELSE Err("resolve_api_url", "join", 0, "", EmptyBody)
    ELSE IF reference[1] = SLASH
    THEN Ok([base EXCEPT !.path = reference])
    ELSE Ok([base EXCEPT !.path = DirOf(base.path) \o reference])

(* ------------------- resolve_api_url: inputs, answers ------------------ *)
Slashes(n) == [i \in 1..n |-> SLASH]
UrlRests ==
    {<<>>, <<"a">>, <<"a", "/", "x">>, <<"a", "/", "x", "/", "y">>,
     <<"a", SPACE, "b">>}
UrlInputs ==
    {lead \o scheme \o rest \o Slashes(n) \o trail :
        lead \in {<<>>, <<SPACE>>}, scheme \in {<<>>, HTTP, HTTPS},
        rest \in UrlRests, n \in 0..MaxSlashes, trail \in {<<>>, <<SPACE>>}}

(* values of the X-Authlib-Injector-API-Location header *)
AliValues ==
    {<<>>, <<SLASH>>, <<"/", "a", "p", "i">>, <<"/", "a", "p", "i", "/">>,
     <<"a", "p", "i">>, <<"a", "p", "i", "/">>, <<"/", "x">>, <<"y">>,
     HTTPS \o <<"b">>, HTTPS \o <<"b", "/">>,
     HTTPS \o <<"b", "/", "a", "p", "i", "/", "/">>,
     HTTP \o <<"a", "/", "x">>, HTTPS}
(* a header: its bytes, and whether to_str() accepts them *)
AliHeader(visible, value) == [visible |-> visible, value |-> value]
AliHeaders ==
    {AliHeader(TRUE, v) : v \in AliValues}
    \cup {AliHeader(FALSE, <<"/", "a", "p", "i">>)}
AliResponse(status, ali) == [status |-> status, ali |-> ali]
NoAliResponse == AliResponse(0, None)
AliResponses ==
    {AliResponse(st, h) : st \in {200, 404},
                          h \in {None} \cup {Some(x) : x \in AliHeaders}}

(* ali_header.to_str().unwrap_or("") *)
AliValueOf(header) == IF header.visible THEN header.value ELSE <<>>

(* what send() can give for this URL: nothing when it does not parse *)
AliAnswers(url) ==
    IF ValidUrl(url) THEN AliResponses \cup {NoAliResponse}
    ELSE {NoAliResponse}

(* mutant: the header is used whatever the status *)
HandleAliResponseAnyStatus(url, res) ==
    IF ~ValidUrl(url) \/ res = NoAliResponse
    THEN TransportErr("resolve_api_url")
    ELSE IF res.ali.tag = "some" /\ AliValueOf(res.ali.val) # <<>>
    THEN LET absolute_url == UrlJoin(UrlParse(url), AliValueOf(res.ali.val)) IN
         IF absolute_url.tag = "err" THEN absolute_url
         ELSE IF UrlToString(absolute_url.val) # url
         THEN Ok(trim_end_matches(UrlToString(absolute_url.val), SLASH))
         ELSE Ok(trim_end_matches(url, SLASH))
    ELSE Ok(trim_end_matches(url, SLASH))

(* yggdrasil.rs 82-100: resolve_api_url from send() on; res = NoAliResponse *)
(* when send() failed, which it does for a URL that does not parse        *)
HandleAliResponse(url, res) ==
    IF ~ValidUrl(url) \/ res = NoAliResponse
    THEN TransportErr("resolve_api_url")
    ELSE IF is_success(res.status) /\ res.ali.tag = "some"
            /\ AliValueOf(res.ali.val) # <<>>
    THEN LET absolute_url == UrlJoin(UrlParse(url), AliValueOf(res.ali.val)) IN
         IF absolute_url.tag = "err" THEN absolute_url
         ELSE IF UrlToString(absolute_url.val) # url
         THEN Ok(trim_end_matches(UrlToString(absolute_url.val), SLASH))
         ELSE Ok(trim_end_matches(url, SLASH))
    ELSE Ok(trim_end_matches(url, SLASH))

(* yggdrasil.rs 74-101 *)
resolve_api_url(initial_url, res) ==
    HandleAliResponse(RequestUrl(initial_url), res)

(* ----------------------- the authenticator's calls --------------------- *)
(* YggdrasilApiMetadata, models.rs *)
MetadataStructs ==
    {[k |-> "metadata", server_name |-> n] : n \in {None, Some("Example")}}
(* YggdrasilErrorResponse, models.rs *)
YggErrorBodies ==
    {Body("ygg_error", "",
          [k |-> "ygg_error", error |-> "ForbiddenOperationException",
           errorMessage |-> "Invalid credentials."])}
YggOpStructs ==
    {r \in YggAuthResponses :
        /\ r.available_profiles = <<>>
        /\ r.selected_profile \in {None, Some(YggProfile(ExampleId, "Steve"))}
        /\ r.user \in {None, Some([id |-> ExampleId, properties |-> <<>>])}}
MetadataResponses == StepResponses(MetadataStructs)
YggAuthHttpResponses ==
    StepResponses(YggOpStructs)
    \cup {Response(st, b) : st \in {403, 500}, b \in YggErrorBodies}
StatusResponses == {Response(st, EmptyBody) : st \in {204, 403, 500}}

(* yggdrasil.rs 107-118: get_api_metadata, from its response on *)
HandleMetadataResponse(res) ==
    IF ~is_success(res.status) THEN StatusErr("get_api_metadata", res)
    ELSE IF res.body.kind # "struct" THEN DecodeErr("get_api_metadata")
    ELSE Ok(res.body.val)

(* mutant: the error body is never parsed *)
HandleYggAuthResponseRawOnly(stage, res) ==
    IF ~is_success(res.status)
    THEN Err(stage, "status", res.status, "", TextOrDefault(res.body))
    ELSE IF res.body.kind # "struct" THEN DecodeErr(stage)
    ELSE Ok(res.body.val)

(* yggdrasil.rs 147-161, 195-209: authenticate and refresh, from the      *)
(* response on                                                            *)
HandleYggAuthResponse(stage, res) ==
    IF ~is_success(res.status)
    THEN LET body == TextOrDefault(res.body) IN
         IF body.kind = "ygg_error"
         THEN Err(stage, "server_error", 0, body.val.error, body)
         ELSE Err(stage, "status", res.status, "", body)
    ELSE IF res.body.kind # "struct" THEN DecodeErr(stage)
    ELSE Ok(res.body.val)

(* mutant: any answer counts as valid *)
HandleStatusOnlyAnyAnswer(res) ==
    IF res = NoResponse THEN Ok(FALSE) ELSE Ok(TRUE)

(* yggdrasil.rs 173-176, 222-225: validate and invalidate *)
HandleStatusOnly(res) ==
    IF res = NoResponse THEN Ok(FALSE) ELSE Ok(is_success(res.status))

(* the calls of the authenticator: the path of the request, the answers   *)
(* it can get                                                             *)
YggOps == {"get_api_metadata", "authenticate", "validate", "refresh", "invalidate"}
YggPath(op) ==
    CASE op = "get_api_metadata" -> "/"
      [] op = "authenticate" -> "/authserver/authenticate"
      [] op = "validate" -> "/authserver/validate"
      [] op = "refresh" -> "/authserver/refresh"
      [] op = "invalidate" -> "/authserver/invalidate"
YggAnswers(op) ==
    CASE op = "get_api_metadata" -> MetadataResponses
      [] op \in {"authenticate", "refresh"} -> YggAuthHttpResponses
      [] op \in {"validate", "invalidate"} -> StatusResponses
YggOutcome(op, res) ==
    CASE op \in {"validate", "invalidate"} -> HandleStatusOnly(res)
      [] res = NoResponse -> TransportErr(op)
      [] op = "get_api_metadata" -> HandleMetadataResponse(res)
      [] op \in {"authenticate", "refresh"} -> HandleYggAuthResponse(op, res)

(* the strings YggdrasilAuthenticator::new is given *)
ApiUrlArgs ==
    {HTTPS \o <<"a">>, HTTPS \o <<"a", "/">>,
     HTTPS \o <<"b", "/", "a", "p", "i", "/", "/">>}

(* --------------------------- launch_manager.rs ------------------------- *)
(* the fields of a stored YggdrasilAccount that the store looks at or that *)
(* tell two saves of one key apart                                        *)
StoredAccount(identifier, url, n) ==
    [identifier |-> identifier, api_url |-> url,
     access_token |-> <<"access", n>>, client_token |-> <<"client", n>>]
Identifiers == {"steve", "Steve"}
(* the api_urls of the accounts saved; an account of a third server is in *)
(* one of the files found at the start                                    *)
StoreUrls == {<<"a">>, <<"a", SLASH>>}
QueryUrls == {<<"a">>, <<"a", SLASH, SLASH>>, <<"b", SLASH>>}
TokenNumbers == {1, 2}
Accounts ==
    {StoredAccount(i, u, n) : i \in Identifiers, u \in StoreUrls, n \in TokenNumbers}

(* accounts.json: absent, a JSON array of accounts, or something          *)
(* load_accounts cannot read or cannot parse                              *)
Absent == [tag |-> "absent", val |-> <<>>]
Stored(list) == [tag |-> "list", val |-> list]
Unreadable == [tag |-> "unreadable", val |-> <<>>]
NotJson == [tag |-> "not_json", val |-> <<>>]
(* the files found before the first call; the last one was not written by *)
(* save_account: it holds one key twice                                   *)
InitialFiles ==
    {Absent, Stored(<<>>), Unreadable, NotJson,
     Stored(<<StoredAccount("steve", <<"a", SLASH>>, 1),
              StoredAccount("Steve", <<"a">>, 1)>>),
     Stored(<<StoredAccount("steve", <<"a">>, 1),
              StoredAccount("steve", <<"b">>, 1),
              StoredAccount("steve", <<"a", SLASH>>, 2)>>)}

(* launch_manager.rs 104-112: load_accounts *)
load_accounts(file) ==
    CASE file.tag = "absent" -> Ok(<<>>)
      [] file.tag = "list" -> Ok(file.val)
      [] file.tag = "unreadable" -> Err("load_accounts", "read", 0, "", EmptyBody)
      [] file.tag = "not_json" -> Err("load_accounts", "decode", 0, "", EmptyBody)

(* launch_manager.rs 117, 169: the test of the loop and of retain *)
SameKey(a, identifier, url) ==
    /\ a.identifier = identifier
    /\ trim_end_matches(a.api_url, SLASH) = trim_end_matches(url, SLASH)

(* the last match instead of the first *)
RECURSIVE find_last(_, _, _)
find_last(accounts, identifier, url) ==
    IF accounts = <<>> THEN None
    ELSE IF SameKey(accounts[Len(accounts)], identifier, url)
    THEN Some(accounts[Len(accounts)])
    ELSE find_last(SubSeq(accounts, 1, Len(accounts) - 1), identifier, url)

(* launch_manager.rs 116-122: the for loop *)
RECURSIVE find_first(_, _, _)
find_first(accounts, identifier, url) ==
    IF accounts = <<>> THEN None
    ELSE IF SameKey(Head(accounts), identifier, url) THEN Some(Head(accounts))
    ELSE find_first(Tail(accounts), identifier, url)

(* mutant: the later of two records of one key is returned *)
find_account_last_match(file, identifier, url) ==
    LET accounts == load_accounts(file) IN
    IF accounts.tag = "err" THEN accounts
    ELSE Ok(find_last(accounts.val, identifier, url))

(* launch_manager.rs 114-123: find_account_by_identifier *)
find_account_by_identifier(file, identifier, url) ==
    LET accounts == load_accounts(file) IN
    IF accounts.tag = "err" THEN accounts
    ELSE Ok(find_first(accounts.val, identifier, url))

(* launch_manager.rs 168-170: accounts.retain(..) *)
RECURSIVE retain_others(_, _)
retain_others(accounts, account) ==
    IF accounts = <<>> THEN <<>>
    ELSE IF SameKey(Head(accounts), account.identifier, account.api_url)
    THEN retain_others(Tail(accounts), account)
    ELSE <<Head(accounts)>> \o retain_others(Tail(accounts), account)

(* mutant: the account takes the place of the record it replaces *)
RECURSIVE replace_in_place(_, _)
replace_in_place(accounts, account) ==
    IF accounts = <<>> THEN <<account>>
    ELSE IF SameKey(Head(accounts), account.identifier, account.api_url)
    THEN <<account>> \o retain_others(Tail(accounts), account)
    ELSE <<Head(accounts)>> \o replace_in_place(Tail(accounts), account)

(* mutant: only records spelt with the same api_url are removed *)
RECURSIVE with_account_exact_url(_, _)
with_account_exact_url(accounts, account) ==
    IF accounts = <<>> THEN <<account>>
    ELSE IF Head(accounts).identifier = account.identifier
            /\ Head(accounts).api_url = account.api_url
    THEN with_account_exact_url(Tail(accounts), account)
    ELSE <<Head(accounts)>> \o with_account_exact_url(Tail(accounts), account)

(* launch_manager.rs 165-172: the list save_account hands to save_accounts *)
with_account(accounts, account) ==
    Append(retain_others(accounts, account), account)

VARIABLES
    pc,               \* the await the flow is at
    now,              \* the monotonic clock, in ticks
    client_id,        \* Authenticator.client_id
    device_code_res,  \* auth.rs 37
    poll_params,      \* auth.rs 40-44
    start_time,       \* auth.rs 46
    timeout_duration, \* auth.rs 47
    poll_interval,    \* auth.rs 48
    trace,            \* every sleep and every request, in order
    ms_access_token,  \* auth.rs 244
    xbl,              \* auth.rs 246: (xbl_token, user_hash)
    xsts,             \* auth.rs 247: (xsts_token, _)
    mc_login_res,     \* auth.rs 248
    profile,          \* auth.rs 251
    result,           \* what perform_full_authentication returned
    fu_input,         \* the id string given to the two formatters
    fu_formatted,     \* what yggdrasil::format_uuid made of it
    fu_again,         \* what format_uuid made of its own output
    fu_session,       \* what auth.rs 253-266 made of it
    acct_in,          \* the arguments of from_auth_response
    acct_out,         \* what from_auth_response returned
    selector_calls,   \* how often it called select_profile
    ygg_pc,           \* "idle", "resolve" (call pending), "resolved", "client"
    initial_url,      \* yggdrasil.rs 74: the argument of resolve_api_url
    ali_res,          \* yggdrasil.rs 83: the answer to its GET
    resolved,         \* what resolve_api_url returned
    api_url,          \* yggdrasil.rs 61: YggdrasilAuthenticator.api_url
    ygg_calls,        \* the calls made so far
    ygg_log,          \* the requests sent so far, each with its call
    ygg_last,         \* the last call of the authenticator: answer, outcome
    accounts_file,    \* launch_manager.rs 88-90: accounts.json
    file0,            \* accounts.json as it was found
    store_proc,       \* per process: where its save_account is, its locals
    store_calls,      \* the calls of the store made so far
    store_log,        \* the loads and writes of save_account, in order
    store_last,       \* the last find_account_by_identifier or load_accounts
    jar_file,         \* yggdrasil.rs 322: cache_dir/authlib-injector.jar
    jar_calls,        \* the calls of get_or_download made so far
    jar_log,          \* the urls requested by get_or_download, in order
    jar_last,         \* the last call of get_or_download
    el_pc,            \* launch_manager.rs 125-161: where external_login is
    el,               \* the arguments and locals of external_login
    el_trace,         \* the calls external_login has made, in order
    sel,              \* yggdrasil.rs 34-57: a call of select_profile
    cache_file,       \* launch_manager.rs 63-65: auth_cache.json
    cmd,              \* main.rs 1057-1119: the command that is run
    inst              \* install.rs 48-207: a call of install_version

uuidVars == <<fu_input, fu_formatted, fu_again, fu_session, acct_in, acct_out,
              selector_calls>>

yggVars == <<ygg_pc, initial_url, ali_res, resolved, api_url, ygg_calls,
             ygg_log, ygg_last>>

storeVars == <<accounts_file, file0, store_proc, store_calls, store_log,
               store_last>>
jarVars == <<jar_file, jar_calls, jar_log, jar_last>>
fileVars == <<storeVars, jarVars>>

elVars == <<el_pc, el, el_trace>>
cmdVars == <<cache_file, cmd>>
flowVars == <<elVars, sel, cmdVars, inst>>
notEl == <<sel, cmdVars, inst>>
notSel == <<elVars, cmdVars, inst>>
notCmd == <<elVars, sel, inst>>
notInst == <<elVars, sel, cmdVars>>

(* the variables the Microsoft chain leaves alone *)
otherVars == <<uuidVars, yggVars, fileVars, flowVars>>

loginVars == <<pc, now, client_id, device_code_res, poll_params, start_time,
               timeout_duration, poll_interval, trace, ms_access_token, xbl,
               xsts, mc_login_res, profile, result>>

vars == <<loginVars, otherVars>>

chainVars == <<ms_access_token, xbl, xsts, mc_login_res, profile>>

msaVars == <<device_code_res, poll_params, start_time, timeout_duration,
             poll_interval>>

NoDeviceCode == [k |-> "device", device_code |-> "", expires_in |-> 0, interval |-> 0]
NoPollParams == [device_code |-> "", client_id |-> ""]
NoXboxToken == [token |-> "", user_hash |-> ""]
NoLogin == [k |-> "mc_login", username |-> "", access_token |-> ""]
NoProfile == [k |-> "profile", id |-> <<>>, name |-> ""]

(* a call that is not being made *)
Idle == [tag |-> "idle"]
Pending == [tag |-> "pending"]
NoAcctIn == [response |-> None, picked |-> None]

UuidIdle ==
    /\ fu_input = <<>>
    /\ fu_formatted = Idle
    /\ fu_again = Idle
    /\ fu_session = Idle
    /\ acct_in = NoAcctIn
    /\ acct_out = Idle
    /\ selector_calls = 0

LoginInit ==
    /\ pc = "device_code"
    /\ now = 0
    /\ client_id \in ClientIds
    /\ device_code_res = NoDeviceCode
    /\ poll_params = NoPollParams
    /\ start_time = 0
    /\ timeout_duration = 0
    /\ poll_interval = 0
    /\ trace = <<>>
    /\ ms_access_token = ""
    /\ xbl = NoXboxToken
    /\ xsts = NoXboxToken
    /\ mc_login_res = NoLogin
    /\ profile = NoProfile
    /\ result = Running

(* the login command is not running *)
LoginIdle ==
    /\ pc = "idle"
    /\ now = 0
    /\ client_id = ""
    /\ device_code_res = NoDeviceCode
    /\ poll_params = NoPollParams
    /\ start_time = 0
    /\ timeout_duration = 0
    /\ poll_interval = 0
    /\ trace = <<>>
    /\ ms_access_token = ""
    /\ xbl = NoXboxToken
    /\ xsts = NoXboxToken
    /\ mc_login_res = NoLogin
    /\ profile = NoProfile
    /\ result = Idle

NoCall == [op |-> "none", res |-> NoResponse, out |-> Idle]

YggIdle ==
    /\ ygg_pc = "idle"
    /\ initial_url = <<>>
    /\ ali_res = NoAliResponse
    /\ resolved = Idle
    /\ api_url = <<>>
    /\ ygg_calls = 0
    /\ ygg_log = <<>>
    /\ ygg_last = NoCall

Procs == {1, 2}
NoAccount == StoredAccount("", <<>>, 0)
IdleProc == [pc |-> "idle", account |-> NoAccount, loaded |-> <<>>,
             accounts |-> <<>>, out |-> Idle]
NoStoreCall == [op |-> "none", identifier |-> "", api_url |-> <<>>, out |-> Idle]

(* no call of the store is made and there is no accounts.json *)
StoreIdle ==
    /\ accounts_file = Absent
    /\ file0 = Absent
    /\ store_proc = [p \in Procs |-> IdleProc]
    /\ store_calls = 0
    /\ store_log = <<>>
    /\ store_last = NoStoreCall

NoJar == [tag |-> "absent", content |-> ""]
Jar(content) == [tag |-> "file", content |-> content]
NoFetch == [cached |-> NoJar, latest |-> "none", dirs |-> FALSE, requests |-> <<>>,
            out |-> Idle]

(* no call of get_or_download is made *)
JarIdle ==
    /\ jar_file = NoJar
    /\ jar_calls = 0
    /\ jar_log = <<>>
    /\ jar_last = NoFetch

FilesIdle == StoreIdle /\ JarIdle

NoAuthResponse ==
    [access_token |-> "", client_token |-> "", available_profiles |-> <<>>,
     selected_profile |-> None, user |-> None]
NoExternalLogin ==
    [api_url |-> <<>>, resolved_url |-> <<>>, server_name |-> None,
     auth_response |-> NoAuthResponse, account |-> None, out |-> Idle]

(* external_login is not called *)
ElIdle ==
    /\ el_pc = "idle"
    /\ el = NoExternalLogin
    /\ el_trace = <<>>

NoSelect == [pc |-> "idle", profiles |-> <<>>, reads |-> <<>>, out |-> Idle]

(* auth_cache.json: absent, an AuthCache, or something load_auth_cache     *)
(* cannot read or cannot decode                                           *)
NoCacheFile == [tag |-> "absent", val |-> <<>>]
CacheFile(cache) == [tag |-> "session", val |-> cache]
UnreadableCache == [tag |-> "unreadable", val |-> <<>>]
UndecodableCache == [tag |-> "not_json", val |-> <<>>]
NoLaunch == [username |-> "", access_token |-> "", uuid |-> <<>>, user_type |-> ""]
NoCmd == [name |-> "none", pc |-> "idle", exit |-> 0, report |-> "",
          launched |-> None]
CmdIdle ==
    /\ cache_file = NoCacheFile
    /\ cmd = NoCmd

(* install.rs 48-207: the files install_version looks for and downloads,   *)
(* one of each task_type, and the asset index of the first phase          *)
InstKinds == {"client", "library", "native", "asset"}
InstFiles == InstKinds \cup {"index"}
NoResults == [k \in InstKinds |-> "none"]
NoInstall ==
    [pc |-> "idle", natives |-> FALSE, disk |-> [f \in InstFiles |-> "absent"],
     tasks |-> {}, results |-> NoResults, json |-> "absent", ret |-> "none",
     reported |-> FALSE]
InstIdle == inst = NoInstall

FlowIdle == ElIdle /\ sel = NoSelect /\ CmdIdle /\ InstIdle

Init ==
    /\ LoginInit
    /\ UuidIdle
    /\ YggIdle
    /\ FilesIdle
    /\ FlowIdle

Fail(e) ==
    /\ pc' = "done"
    /\ result' = e

(* auth.rs 25-48 *)
DeviceCodeRequest ==
    /\ pc = "device_code"
    /\ \E res \in DeviceCodeResponses \cup {NoResponse} :
        LET out == IF res = NoResponse THEN TransportErr("device_code")
                   ELSE HandleDeviceCodeResponse(res) IN
        /\ trace' = Append(trace, [ev |-> "device_code",
                                   client_id |-> client_id, res |-> res])
        /\ IF out.tag = "ok"
           THEN /\ device_code_res' = out.val
                /\ poll_params' = [device_code |-> out.val.device_code,
                                   client_id |-> client_id]
                /\ start_time' = now
                /\ timeout_duration' = TimeoutDuration(out.val.expires_in)
                /\ poll_interval' = PollInterval(out.val.interval)
                /\ pc' = "loop"
                /\ UNCHANGED result
           ELSE /\ Fail(out)
                /\ UNCHANGED msaVars
    /\ UNCHANGED <<otherVars, client_id, now, chainVars>>

(* mutant: the first poll is sent at once, the sleep separates two polls *)
LoopCheckPollFirst ==
    /\ pc = "loop"
    /\ \E d \in 0..MaxDelay :
        /\ now' = now + d
        /\ IF TimedOut(now' - start_time, timeout_duration)
           THEN Fail(Err("poll", "timeout", 0, "", EmptyBody))
           ELSE /\ pc' = IF Len(trace) = 1 THEN "poll" ELSE "sleep"
                /\ UNCHANGED result
    /\ UNCHANGED <<otherVars, client_id, msaVars, trace, chainVars>>

(* auth.rs 50-53; the delay is the time since the previous await returned *)
LoopCheck ==
    /\ pc = "loop"
    /\ \E d \in 0..MaxDelay :
        /\ now' = now + d
        /\ IF TimedOut(now' - start_time, timeout_duration)
           THEN Fail(Err("poll", "timeout", 0, "", EmptyBody))
           ELSE pc' = "sleep" /\ UNCHANGED result
    /\ UNCHANGED <<otherVars, client_id, msaVars, trace, chainVars>>

(* auth.rs 55: tokio::time::sleep returns no sooner than asked *)
Sleep ==
    /\ pc = "sleep"
    /\ \E over \in 0..MaxDelay :
        /\ now' = now + poll_interval + over
        /\ trace' = Append(trace, [ev |-> "sleep", dur |-> poll_interval,
                                   end |-> now' - start_time])
    /\ pc' = "poll"
    /\ UNCHANGED <<otherVars, client_id, msaVars, result, chainVars>>

(* auth.rs 57-99 *)
PollRequest ==
    /\ pc = "poll"
    /\ \E res \in PollResponses \cup {NoResponse} :
        LET out == IF res = NoResponse THEN TransportErr("poll")
                   ELSE HandlePollResponse(res) IN
        /\ trace' = Append(trace, [ev |-> "poll", params |-> poll_params,
                                   at |-> now - start_time, res |-> res])
        /\ CASE out.tag = "continue" ->
                  /\ pc' = "loop"
                  /\ poll_interval' =
                       IntervalAfterContinue(res.body.error, poll_interval)
                  /\ UNCHANGED <<result, device_code_res, poll_params,
                                 start_time, timeout_duration, ms_access_token>>
             [] out.tag = "ok" ->
                  /\ pc' = "xbl"
                  /\ ms_access_token' = out.val.access_token
                  /\ UNCHANGED <<result, msaVars>>
             [] OTHER ->
                  /\ Fail(out)
                  /\ UNCHANGED <<msaVars, ms_access_token>>
    /\ UNCHANGED <<otherVars, client_id, now, xbl, xsts, mc_login_res, profile>>

(* auth.rs 246, 103-135 *)
XblRequest ==
    /\ pc = "xbl"
    /\ \E res \in XblResponses \cup {NoResponse} :
        LET out == IF res = NoResponse THEN TransportErr("xbl")
                   ELSE HandleXblResponse(res) IN
        /\ trace' = Append(trace, [ev |-> "xbl", rps_ticket |-> ms_access_token,
                                   res |-> res])
        /\ IF out.tag = "ok"
           THEN xbl' = out.val /\ pc' = "xsts" /\ UNCHANGED result
           ELSE Fail(out) /\ UNCHANGED xbl
    /\ UNCHANGED <<otherVars, client_id, now, msaVars, ms_access_token, xsts,
                   mc_login_res, profile>>

(* mutant: the XSTS result is not propagated with `?` *)
XstsRequestNoAbort ==
    /\ pc = "xsts"
    /\ \E res \in XstsResponses \cup {NoResponse} :
        LET out == IF res = NoResponse THEN TransportErr("xsts")
                   ELSE HandleXstsResponse(res) IN
        /\ trace' = Append(trace, [ev |-> "xsts", user_token |-> xbl.token,
                                   res |-> res])
        /\ xsts' = IF out.tag = "ok" THEN out.val ELSE NoXboxToken
        /\ pc' = "mc_login"
        /\ UNCHANGED result
    /\ UNCHANGED <<otherVars, client_id, now, msaVars, ms_access_token, xbl,
                   mc_login_res, profile>>

(* auth.rs 247, 137-183 *)
XstsRequest ==
    /\ pc = "xsts"
    /\ \E res \in XstsResponses \cup {NoResponse} :
        LET out == IF res = NoResponse THEN TransportErr("xsts")
                   ELSE HandleXstsResponse(res) IN
        /\ trace' = Append(trace, [ev |-> "xsts", user_token |-> xbl.token,
                                   res |-> res])
        /\ IF out.tag = "ok"
           THEN xsts' = out.val /\ pc' = "mc_login" /\ UNCHANGED result
           ELSE Fail(out) /\ UNCHANGED xsts
    /\ UNCHANGED <<otherVars, client_id, now, msaVars, ms_access_token, xbl,
                   mc_login_res, profile>>

(* mutant: the user hash of the XSTS exchange goes into the identityToken *)
McLoginRequestXstsHash ==
    /\ pc = "mc_login"
    /\ \E res \in McLoginResponses \cup {NoResponse} :
        LET out == IF res = NoResponse THEN TransportErr("mc_login")
                   ELSE HandleMcLoginResponse(res) IN
        /\ trace' = Append(trace, [ev |-> "mc_login",
                                   identity_user_hash |-> xsts.user_hash,
                                   identity_token |-> xsts.token,
                                   res |-> res])
        /\ IF out.tag = "ok"
           THEN mc_login_res' = out.val /\ pc' = "profile" /\ UNCHANGED result
           ELSE Fail(out) /\ UNCHANGED mc_login_res
    /\ UNCHANGED <<otherVars, client_id, now, msaVars, ms_access_token, xbl, xsts, profile>>

(* auth.rs 248-250, 185-213: identityToken "XBL3.0 x={user_hash};{xsts_token}" *)
McLoginRequest ==
    /\ pc = "mc_login"
    /\ \E res \in McLoginResponses \cup {NoResponse} :
        LET out == IF res = NoResponse THEN TransportErr("mc_login")
                   ELSE HandleMcLoginResponse(res) IN
        /\ trace' = Append(trace, [ev |-> "mc_login",
                                   identity_user_hash |-> xbl.user_hash,
                                   identity_token |-> xsts.token,
                                   res |-> res])
        /\ IF out.tag = "ok"
           THEN mc_login_res' = out.val /\ pc' = "profile" /\ UNCHANGED result
           ELSE Fail(out) /\ UNCHANGED mc_login_res
    /\ UNCHANGED <<otherVars, client_id, now, msaVars, ms_access_token, xbl, xsts, profile>>

(* auth.rs 251, 215-240 *)
ProfileRequest ==
    /\ pc = "profile"
    /\ \E res \in ProfileResponses \cup {NoResponse} :
        LET out == IF res = NoResponse THEN TransportErr("profile")
                   ELSE HandleProfileResponse(res) IN
        /\ trace' = Append(trace, [ev |-> "profile",
                                   bearer |-> mc_login_res.access_token,
                                   res |-> res])
        /\ IF out.tag = "ok"
           THEN profile' = out.val /\ pc' = "format" /\ UNCHANGED result
           ELSE Fail(out) /\ UNCHANGED profile
    /\ UNCHANGED <<otherVars, client_id, now, msaVars, ms_access_token, xbl, xsts,
                   mc_login_res>>

(* auth.rs 253-266 *)
ToSession ==
    /\ pc = "format"
    /\ pc' = "done"
    /\ result' = FormatSession(mc_login_res, profile)
    /\ UNCHANGED <<otherVars, client_id, now, msaVars, trace, chainVars>>

Next ==
    \/ DeviceCodeRequest
    \/ LoopCheck
    \/ Sleep
    \/ PollRequest
    \/ XblRequest
    \/ XstsRequest
    \/ McLoginRequest
    \/ ProfileRequest
    \/ ToSession

Spec == Init /\ [][Next]_vars

(* ------------------- the uuid formatters on their own ------------------ *)
FormatInit ==
    /\ fu_input \in IdStrings
    /\ fu_formatted = Pending
    /\ fu_again = Pending
    /\ fu_session = Pending
    /\ acct_in = NoAcctIn
    /\ acct_out = Idle
    /\ selector_calls = 0

AccountInit ==
    /\ fu_input = <<>>
    /\ fu_formatted = Idle
    /\ fu_again = Idle
    /\ fu_session = Idle
    /\ \E r \in YggAuthResponses :
        \E o \in SelectOutcomes(r.available_profiles) :
            acct_in = [response |-> r, picked |-> Some(o)]
    /\ acct_out = Pending
    /\ selector_calls = 0

UuidInit ==
    /\ LoginIdle
    /\ YggIdle
    /\ FilesIdle
    /\ FlowIdle
    /\ FormatInit \/ AccountInit

(* yggdrasil.rs 18-31: format_uuid(&s) *)
FormatUuidCall ==
    /\ fu_formatted = Pending
    /\ fu_formatted' = format_uuid(fu_input)
    /\ UNCHANGED <<loginVars, flowVars, yggVars, fileVars, fu_input, fu_again, fu_session, acct_in, acct_out,
                   selector_calls>>

(* yggdrasil.rs 18-31: format_uuid(&format_uuid(&s)) *)
FormatUuidAgainCall ==
    /\ fu_formatted.tag = "ok"
    /\ fu_again = Pending
    /\ fu_again' = format_uuid(fu_formatted.val)
    /\ UNCHANGED <<loginVars, flowVars, yggVars, fileVars, fu_input, fu_formatted, fu_session, acct_in, acct_out,
                   selector_calls>>

(* auth.rs 253-266 on a profile with this id *)
ToSessionCall ==
    /\ fu_session = Pending
    /\ fu_session' = FormatSession([k |-> "mc_login", username |-> "Alex",
                                    access_token |-> "mc-tok"],
                                   [k |-> "profile", id |-> fu_input,
                                    name |-> "Steve"])
    /\ UNCHANGED <<loginVars, flowVars, yggVars, fileVars, fu_input, fu_formatted, fu_again, acct_in, acct_out,
                   selector_calls>>

AcctApiUrl == "https://auth.example.com/api/yggdrasil"

(* yggdrasil.rs 289-301: from_auth_response *)
FromAuthResponseCall ==
    /\ acct_out = Pending
    /\ acct_out' = from_auth_response_with_profile_selection(
                      AcctApiUrl, Some("Example"), "steve@example.com",
                      acct_in.response, acct_in.picked.val)
    /\ selector_calls' = IF CallsSelectProfile(acct_in.response) THEN 1 ELSE 0
    /\ UNCHANGED <<loginVars, flowVars, yggVars, fileVars, fu_input, fu_formatted, fu_again, fu_session, acct_in>>

UuidNext ==
    \/ FormatUuidCall
    \/ FormatUuidAgainCall
    \/ ToSessionCall
    \/ FromAuthResponseCall

SpecUuid == UuidInit /\ [][UuidNext]_vars

(* ------------------------- the Yggdrasil calls ------------------------- *)
ResolveInit ==
    /\ ygg_pc = "resolve"
    /\ initial_url \in UrlInputs
    /\ ali_res = NoAliResponse
    /\ resolved = Pending
    /\ api_url = <<>>
    /\ ygg_calls = 0
    /\ ygg_log = <<>>
    /\ ygg_last = NoCall

(* yggdrasil.rs 66-71: YggdrasilAuthenticator::new *)
ClientInit ==
    /\ ygg_pc = "client"
    /\ initial_url = <<>>
    /\ ali_res = NoAliResponse
    /\ resolved = Idle
    /\ api_url \in {new_api_url(a) : a \in ApiUrlArgs}
    /\ ygg_calls = 0
    /\ ygg_log = <<>>
    /\ ygg_last = NoCall

YggInit ==
    /\ LoginIdle
    /\ UuidIdle
    /\ FilesIdle
    /\ FlowIdle
    /\ ResolveInit \/ ClientInit

Request(call, op, url) == [call |-> call, op |-> op, url |-> url]

(* mutant: the URL the header names is fetched too, for its own header *)
ResolveApiUrlSecondHop ==
    /\ ygg_pc = "resolve"
    /\ \E res \in AliAnswers(RequestUrl(initial_url)) :
        LET out == resolve_api_url(initial_url, res) IN
        /\ ali_res' = res
        /\ resolved' = out
        /\ ygg_log' =
             IF out.tag = "ok" /\ out.val # RequestUrl(initial_url)
             THEN ygg_log
                  \o <<Request(ygg_calls + 1, "resolve_api_url", RequestUrl(initial_url)),
                       Request(ygg_calls + 1, "resolve_api_url", out.val)>>
             ELSE Append(ygg_log, Request(ygg_calls + 1, "resolve_api_url",
                                          RequestUrl(initial_url)))
    /\ ygg_calls' = ygg_calls + 1
    /\ ygg_pc' = "resolved"
    /\ UNCHANGED <<loginVars, flowVars, uuidVars, fileVars, initial_url, api_url, ygg_last>>

(* yggdrasil.rs 74-101: resolve_api_url, its one send() included *)
ResolveApiUrl ==
    /\ ygg_pc = "resolve"
    /\ \E res \in AliAnswers(RequestUrl(initial_url)) :
        /\ ali_res' = res
        /\ resolved' = resolve_api_url(initial_url, res)
    /\ ygg_log' = Append(ygg_log, Request(ygg_calls + 1, "resolve_api_url",
                                          RequestUrl(initial_url)))
    /\ ygg_calls' = ygg_calls + 1
    /\ ygg_pc' = "resolved"
    /\ UNCHANGED <<loginVars, flowVars, uuidVars, fileVars, initial_url, api_url, ygg_last>>

(* one call of the authenticator: one send() and what is made of the answer *)
YggCall(op) ==
    /\ ygg_pc = "client"
    /\ ygg_calls < MaxCalls
    /\ \E res \in YggAnswers(op) \cup {NoResponse} :
        ygg_last' = [op |-> op, res |-> res, out |-> YggOutcome(op, res)]
    /\ ygg_log' = Append(ygg_log, Request(ygg_calls + 1, op,
                                          Append(api_url, YggPath(op))))
    /\ ygg_calls' = ygg_calls + 1
    /\ UNCHANGED <<loginVars, flowVars, uuidVars, fileVars, ygg_pc, initial_url, ali_res, resolved,
                   api_url>>

(* yggdrasil.rs 103-119 *)
GetApiMetadata == YggCall("get_api_metadata")
(* yggdrasil.rs 127-162 *)
Authenticate == YggCall("authenticate")
(* yggdrasil.rs 164-177 *)
Validate == YggCall("validate")
(* yggdrasil.rs 179-210 *)
Refresh == YggCall("refresh")
(* yggdrasil.rs 213-226 *)
Invalidate == YggCall("invalidate")

YggNext ==
    \/ ResolveApiUrl
    \/ GetApiMetadata
    \/ Authenticate
    \/ Validate
    \/ Refresh
    \/ Invalidate

SpecYgg == YggInit /\ [][YggNext]_vars

(* the login command or the Yggdrasil calls *)
CliInit == Init \/ YggInit
CliNext == Next \/ YggNext
SpecCli == CliInit /\ [][CliNext]_vars

(* --------------------------- the account store ------------------------- *)
StoreInit ==
    /\ accounts_file \in InitialFiles
    /\ file0 = accounts_file
    /\ store_proc = [p \in Procs |-> IdleProc]
    /\ store_calls = 0
    /\ store_log = <<>>
    /\ store_last = NoStoreCall

(* the store is called in runs that make no Yggdrasil call *)
StoreBudget == IF ygg_pc = "idle" THEN MaxSaves ELSE 0

(* fs::write creates the file, which empties it, then writes: it replaces  *)
(* the contents, fails before it has touched the file, or fails after it  *)
(* has emptied it, and what is left is not a JSON text                    *)
WriteOutcomes == {"write", "write_failed", "write_torn"}

StoreEvent(p, ev, account) == [p |-> p, ev |-> ev, account |-> account]

(* mutant: a file that cannot be loaded is taken for an empty store *)
SaveAccountLoadStartingOver(p) ==
    /\ store_proc[p].pc = "idle"
    /\ store_calls < StoreBudget
    /\ \E account \in Accounts :
        LET accounts == IF accounts_file.tag = "list" THEN accounts_file.val ELSE <<>> IN
        /\ store_proc' = [store_proc EXCEPT ![p] =
               [pc |-> "write", account |-> account, loaded |-> accounts,
                accounts |-> with_account(accounts, account), out |-> Pending]]
        /\ store_log' = Append(store_log, StoreEvent(p, "load", account))
    /\ store_calls' = store_calls + 1
    /\ UNCHANGED <<loginVars, flowVars, uuidVars, yggVars, jarVars, accounts_file, file0, store_last>>

(* launch_manager.rs 164-172: save_account up to the call of save_accounts *)
SaveAccountLoad(p) ==
    /\ store_proc[p].pc = "idle"
    /\ store_calls < StoreBudget
    /\ \E account \in Accounts :
        LET accounts == load_accounts(accounts_file) IN
        IF accounts.tag = "err"
        THEN /\ store_proc' = [store_proc EXCEPT ![p] =
                    [IdleProc EXCEPT !.account = account, !.out = accounts]]
             /\ store_log' = Append(store_log, StoreEvent(p, "load_failed", account))
        ELSE /\ store_proc' = [store_proc EXCEPT ![p] =
                    [pc |-> "write", account |-> account,
                     loaded |-> accounts.val,
                     accounts |-> with_account(accounts.val, account),
                     out |-> Pending]]
             /\ store_log' = Append(store_log, StoreEvent(p, "load", account))
    /\ store_calls' = store_calls + 1
    /\ UNCHANGED <<loginVars, flowVars, uuidVars, yggVars, jarVars, accounts_file, file0, store_last>>

(* mutant: the file is read again and the account added to what it holds *)
SaveAccountWriteMerging(p) ==
    /\ store_proc[p].pc = "write"
    /\ \E ev \in WriteOutcomes :
        /\ accounts_file' =
             CASE ev = "write" ->
                    Stored(with_account(IF accounts_file.tag = "list"
                                        THEN accounts_file.val ELSE <<>>,
                                        store_proc[p].account))
               [] ev = "write_failed" -> accounts_file
               [] ev = "write_torn" -> NotJson
        /\ store_proc' = [store_proc EXCEPT ![p].pc = "idle", ![p].out =
                IF ev = "write" THEN Ok(<<>>)
                ELSE Err("save_accounts", "write", 0, "", EmptyBody)]
        /\ store_log' = Append(store_log, StoreEvent(p, ev, store_proc[p].account))
    /\ UNCHANGED <<loginVars, flowVars, uuidVars, yggVars, jarVars, file0, store_calls, store_last>>

(* launch_manager.rs 173, 96-102: save_accounts rewrites the whole file *)
SaveAccountWrite(p) ==
    /\ store_proc[p].pc = "write"
    /\ \E ev \in WriteOutcomes :
        /\ accounts_file' =
             CASE ev = "write" -> Stored(store_proc[p].accounts)
               [] ev = "write_failed" -> accounts_file
               [] ev = "write_torn" -> NotJson
        /\ store_proc' = [store_proc EXCEPT ![p].pc = "idle", ![p].out =
                IF ev = "write" THEN Ok(<<>>)
                ELSE Err("save_accounts", "write", 0, "", EmptyBody)]
        /\ store_log' = Append(store_log, StoreEvent(p, ev, store_proc[p].account))
    /\ UNCHANGED <<loginVars, flowVars, uuidVars, yggVars, jarVars, file0, store_calls, store_last>>

(* mutant: a file with one key twice is rewritten without the later ones *)
FindAccountCompacting ==
    /\ store_calls < StoreBudget
    /\ \E identifier \in Identifiers, url \in QueryUrls :
        /\ store_last' = [op |-> "find", identifier |-> identifier, api_url |-> url,
                          out |-> find_account_by_identifier(accounts_file,
                                                             identifier, url)]
        /\ accounts_file' =
             IF find_account_by_identifier(accounts_file, identifier, url).tag = "ok"
                /\ find_account_by_identifier(accounts_file, identifier, url).val.tag = "some"
             THEN Stored(replace_in_place(accounts_file.val,
                     find_account_by_identifier(accounts_file, identifier, url).val.val))
             ELSE accounts_file
    /\ store_calls' = store_calls + 1
    /\ UNCHANGED <<loginVars, flowVars, uuidVars, yggVars, jarVars, file0, store_proc, store_log>>

(* launch_manager.rs 114-123 *)
FindAccount ==
    /\ store_calls < StoreBudget
    /\ \E identifier \in Identifiers, url \in QueryUrls :
        store_last' = [op |-> "find", identifier |-> identifier, api_url |-> url,
                       out |-> find_account_by_identifier(accounts_file,
                                                          identifier, url)]
    /\ store_calls' = store_calls + 1
    /\ UNCHANGED <<loginVars, flowVars, uuidVars, yggVars, jarVars, accounts_file, file0, store_proc,
                   store_log>>

(* launch_manager.rs 104-112 *)
LoadAccounts ==
    /\ store_calls < StoreBudget
    /\ store_last' = [op |-> "load", identifier |-> "", api_url |-> <<>>,
                      out |-> load_accounts(accounts_file)]
    /\ store_calls' = store_calls + 1
    /\ UNCHANGED <<loginVars, flowVars, uuidVars, yggVars, jarVars, accounts_file, file0, store_proc,
                   store_log>>

StoreNext ==
    \/ \E p \in Procs : SaveAccountLoad(p)
    \/ \E p \in Procs : SaveAccountWrite(p)
    \/ FindAccount
    \/ LoadAccounts

(* calls of the store, or Yggdrasil calls beside an accounts.json *)
StoreSessionInit ==
    /\ LoginIdle
    /\ UuidIdle
    /\ StoreInit
    /\ JarIdle
    /\ FlowIdle
    /\ YggIdle \/ ResolveInit \/ ClientInit
SpecStore == StoreSessionInit /\ [][StoreNext \/ YggNext]_vars

(* ---------------------------- authlib-injector -------------------------- *)
JarPath == "cache/authlib-injector.jar"
(* yggdrasil.rs 14, 332 *)
LatestUrl == "https://authlib-injector.yushi.moe/artifact/latest.json"
(* yggdrasil.rs 15, 342, 348 *)
MirrorUrl == "https://bmclapi2.bangbang93.com/mirrors/authlib-injector/artifact/latest/authlib-injector.jar"
ArtifactUrl == "https://authlib-injector.yushi.moe/artifact/55/authlib-injector-1.2.6.jar"

(* what the metadata endpoint answers: a status and a body that is not     *)
(* JSON, cannot be read, is JSON with no download_url, with a download_url *)
(* that is not a string, or with a string                                  *)
LatestBodies ==
    {[kind |-> k, download_url |-> ""] :
        k \in {"not_json", "unreadable", "array", "no_download_url", "number"}}
    \cup {[kind |-> "string", download_url |-> u] : u \in {ArtifactUrl, ""}}
LatestAnswer(status, body) == [status |-> status, body |-> body]
NoLatestAnswer == LatestAnswer(0, [kind |-> "none", download_url |-> ""])
LatestAnswers ==
    {LatestAnswer(st, b) : st \in {200, 404, 500}, b \in LatestBodies}
    \cup {NoLatestAnswer}

(* what becomes of the download: no response, a status that is not 2xx,   *)
(* File::create fails, a chunk cannot be read or written after the file   *)
(* was created, an empty chunk ends the loop, or every chunk is written   *)
DownloadOutcomes ==
    {"no_response", "status_404", "create_failed", "chunk_error", "write_error",
     "empty_chunk", "complete"}
(* a request to a string that is no url cannot be sent *)
DownloadsOf(url) == IF url = "" THEN {"no_response"} ELSE DownloadOutcomes

(* yggdrasil.rs 334-350: the url to download from, or the error of `?` *)
download_url_of(latest) ==
    IF latest.status \in 200..299
    THEN CASE latest.body.kind \in {"not_json", "unreadable"} ->
                Err("get_or_download", "decode", latest.status, "", EmptyBody)
           [] latest.body.kind = "string" -> Ok(latest.body.download_url)
           [] OTHER -> Ok(MirrorUrl)
    ELSE Ok(MirrorUrl)

(* yggdrasil.rs 361-415: the download into jar_path *)
download(dl) ==
    CASE dl = "no_response" ->
            [file |-> NoJar, out |-> Err("get_or_download", "transport", 0, "", EmptyBody)]
      [] dl = "status_404" ->
            [file |-> NoJar, out |-> Err("get_or_download", "status", 404, "", EmptyBody)]
      [] dl = "create_failed" ->
            [file |-> NoJar, out |-> Err("get_or_download", "create", 200, "", EmptyBody)]
      [] dl = "chunk_error" ->
            [file |-> Jar("partial"), out |-> Err("get_or_download", "read", 200, "", EmptyBody)]
      [] dl = "write_error" ->
            [file |-> Jar("partial"), out |-> Err("get_or_download", "write", 200, "", EmptyBody)]
      [] dl = "empty_chunk" -> [file |-> Jar("partial"), out |-> Ok(JarPath)]
      [] dl = "complete" -> [file |-> Jar("complete"), out |-> Ok(JarPath)]

Fetched(file, requests, out) == [file |-> file, requests |-> requests, out |-> out]

(* mutant: the metadata endpoint is asked before the cache is looked at *)
get_or_download_asking_first(file, latest, dirs, dl) ==
    LET url == download_url_of(latest) IN
    IF url.tag = "err" THEN Fetched(file, <<LatestUrl>>, url)
    ELSE IF file.tag = "file" THEN Fetched(file, <<LatestUrl>>, Ok(JarPath))
    ELSE IF ~dirs
    THEN Fetched(file, <<LatestUrl>>,
                 Err("get_or_download", "create_dir", 0, "", EmptyBody))
    ELSE Fetched(download(dl).file, <<LatestUrl, url.val>>, download(dl).out)

(* yggdrasil.rs 321-416: get_or_download, with the answer of the metadata  *)
(* endpoint, whether create_dir_all succeeds, and the fate of the download *)
get_or_download(file, latest, dirs, dl) ==
    LET url == download_url_of(latest) IN
    IF file.tag = "file" THEN Fetched(file, <<>>, Ok(JarPath))
    ELSE IF url.tag = "err" THEN Fetched(file, <<LatestUrl>>, url)
    ELSE IF ~dirs
    THEN Fetched(file, <<LatestUrl>>,
                 Err("get_or_download", "create_dir", 0, "", EmptyBody))
    ELSE Fetched(download(dl).file, <<LatestUrl, url.val>>, download(dl).out)

JarInit ==
    /\ jar_file \in {NoJar, Jar("complete"), Jar("partial")}
    /\ jar_calls = 0
    /\ jar_log = <<>>
    /\ jar_last = NoFetch

GetOrDownload ==
    /\ jar_calls < MaxFetches
    /\ \E latest \in LatestAnswers, dirs \in BOOLEAN, dl \in DownloadOutcomes :
        LET fetched == get_or_download(jar_file, latest, dirs, dl) IN
        /\ Len(fetched.requests) = 2 => dl \in DownloadsOf(fetched.requests[2])
        /\ jar_file' = fetched.file
        /\ jar_log' = jar_log \o fetched.requests
        /\ jar_last' = [cached |-> jar_file, latest |-> latest, dirs |-> dirs,
                        requests |-> fetched.requests, out |-> fetched.out]
    /\ jar_calls' = jar_calls + 1
    /\ UNCHANGED <<loginVars, flowVars, uuidVars, yggVars, storeVars>>

JarSessionInit ==
    /\ LoginIdle
    /\ UuidIdle
    /\ YggIdle
    /\ StoreIdle
    /\ JarInit
    /\ FlowIdle
SpecJar == JarSessionInit /\ [][GetOrDownload]_vars

(* ---------------------------- external_login --------------------------- *)
ElIdentifier == "steve"
(* the api_url argument: a host, a url with a trailing slash, a blank *)
ElUrls == {<<"a">>, HTTP \o <<"a", SLASH>>, <<SPACE>>}
(* what a 2xx answer of authenticate decodes to: with and without          *)
(* selectedProfile, availableProfiles and user, and a profile id too short *)
ElAuthStructs ==
    {r \in YggAuthResponses :
        /\ r.available_profiles \in
              {<<>>, <<YggProfile(OtherId, "Alex"), YggProfile(ExampleId, "Steve")>>}
        /\ r.selected_profile \in {None, Some(YggProfile(ExampleId, "Steve")),
                                    Some(YggProfile(ShortId, "Steve"))}
        /\ r.user \in {None, Some([id |-> ExampleId, properties |-> <<>>])}}
ElAuthResponses ==
    StepResponses(ElAuthStructs)
    \cup {Response(st, b) : st \in {403, 500}, b \in YggErrorBodies}

ElEvent(op, arg) == [op |-> op, arg |-> arg]
ElFail(out) ==
    /\ el_pc' = "done"
    /\ el' = [el EXCEPT !.out = out]

ElInit ==
    /\ el_pc = "resolve"
    /\ \E url \in ElUrls : el = [NoExternalLogin EXCEPT !.api_url = url, !.out = Pending]
    /\ el_trace = <<>>

(* launch_manager.rs 132: resolve_api_url(api_url).await? *)
ElResolve ==
    /\ el_pc = "resolve"
    /\ \E res \in AliAnswers(RequestUrl(el.api_url)) :
        LET out == resolve_api_url(el.api_url, res) IN
        IF out.tag = "ok"
        THEN /\ el_pc' = "metadata"
             /\ el' = [el EXCEPT !.resolved_url = out.val]
        ELSE ElFail(out)
    /\ el_trace' = Append(el_trace, ElEvent("resolve_api_url", RequestUrl(el.api_url)))
    /\ UNCHANGED <<loginVars, uuidVars, yggVars, fileVars, notEl>>

(* launch_manager.rs 135-140: new(resolved_url), get_api_metadata().await? *)
ElMetadata ==
    /\ el_pc = "metadata"
    /\ \E res \in MetadataResponses \cup {NoResponse} :
        LET out == YggOutcome("get_api_metadata", res) IN
        IF out.tag = "ok"
        THEN /\ el_pc' = "authenticate"
             /\ el' = [el EXCEPT !.server_name = out.val.server_name]
        ELSE ElFail(out)
    /\ el_trace' = Append(el_trace, ElEvent("get_api_metadata",
             Append(new_api_url(el.resolved_url), YggPath("get_api_metadata"))))
    /\ UNCHANGED <<loginVars, uuidVars, yggVars, fileVars, notEl>>

(* launch_manager.rs 145: authenticate(identifier, password).await? *)
ElAuthenticate ==
    /\ el_pc = "authenticate"
    /\ \E res \in ElAuthResponses \cup {NoResponse} :
        LET out == YggOutcome("authenticate", res) IN
        IF out.tag = "ok"
        THEN /\ el_pc' = "account"
             /\ el' = [el EXCEPT !.auth_response = out.val]
        ELSE ElFail(out)
    /\ el_trace' = Append(el_trace, ElEvent("authenticate",
             Append(new_api_url(el.resolved_url), YggPath("authenticate"))))
    /\ UNCHANGED <<loginVars, uuidVars, yggVars, fileVars, notEl>>

(* mutant: the account is given the url the caller asked for *)
ElAccountOriginalUrl ==
    /\ el_pc = "account"
    /\ \E picked \in SelectOutcomes(el.auth_response.available_profiles) :
        LET out == from_auth_response_with_profile_selection(
                       RequestUrl(el.api_url), el.server_name, ElIdentifier,
                       el.auth_response, picked)
            asked == CallsSelectProfile(el.auth_response)
        IN  /\ el_trace' = el_trace \o <<ElEvent("from_auth_response", <<>>)>>
                  \o (IF asked THEN <<ElEvent("select_profile", <<>>)>> ELSE <<>>)
            /\ IF out.tag = "ok"
               THEN /\ el_pc' = "save"
                    /\ el' = [el EXCEPT !.account = Some(out.val)]
               ELSE ElFail(out)
    /\ UNCHANGED <<loginVars, uuidVars, yggVars, fileVars, notEl>>

(* mutant: the user object is looked for before the profile is resolved *)
ElAccountUserFirst ==
    /\ el_pc = "account"
    /\ \E picked \in SelectOutcomes(el.auth_response.available_profiles) :
        LET out == from_auth_response_with_profile_selection(
                       el.resolved_url, el.server_name, ElIdentifier,
                       el.auth_response, picked)
            asked == CallsSelectProfile(el.auth_response)
                     /\ el.auth_response.user # None
        IN  /\ el_trace' = el_trace \o <<ElEvent("from_auth_response", <<>>)>>
                  \o (IF asked THEN <<ElEvent("select_profile", <<>>)>> ELSE <<>>)
            /\ IF out.tag = "ok"
               THEN /\ el_pc' = "save"
                    /\ el' = [el EXCEPT !.account = Some(out.val)]
               ELSE ElFail(IF el.auth_response.user = None
                           THEN Err("from_auth_response", "no_user_info", 0, "", EmptyBody)
                           ELSE out)
    /\ UNCHANGED <<loginVars, uuidVars, yggVars, fileVars, notEl>>

(* launch_manager.rs 148-153: from_auth_response(..)?, which calls         *)
(* select_profile when the answer has no selectedProfile but has profiles  *)
ElAccount ==
    /\ el_pc = "account"
    /\ \E picked \in SelectOutcomes(el.auth_response.available_profiles) :
        LET out == from_auth_response_with_profile_selection(
                       el.resolved_url, el.server_name, ElIdentifier,
                       el.auth_response, picked)
            asked == CallsSelectProfile(el.auth_response)
        IN  /\ el_trace' = el_trace \o <<ElEvent("from_auth_response", <<>>)>>
                  \o (IF asked THEN <<ElEvent("select_profile", <<>>)>> ELSE <<>>)
            /\ IF out.tag = "ok"
               THEN /\ el_pc' = "save"
                    /\ el' = [el EXCEPT !.account = Some(out.val)]
               ELSE ElFail(out)
    /\ UNCHANGED <<loginVars, uuidVars, yggVars, fileVars, notEl>>

(* launch_manager.rs 158-160: save_account(&account)?, Ok(account) *)
ElSave ==
    /\ el_pc = "save"
    /\ LET accounts == load_accounts(accounts_file) IN
       IF accounts.tag = "err"
       THEN /\ el' = [el EXCEPT !.out = accounts]
            /\ UNCHANGED accounts_file
       ELSE \E ev \in WriteOutcomes :
            /\ accounts_file' =
                 CASE ev = "write" -> Stored(with_account(accounts.val, el.account.val))
                   [] ev = "write_failed" -> accounts_file
                   [] ev = "write_torn" -> NotJson
            /\ el' = [el EXCEPT !.out =
                   IF ev = "write" THEN Ok(el.account.val)
                   ELSE Err("save_accounts", "write", 0, "", EmptyBody)]
    /\ el_pc' = "done"
    /\ el_trace' = Append(el_trace, ElEvent("save_account", <<>>))
    /\ UNCHANGED <<loginVars, uuidVars, yggVars, jarVars, file0, store_proc,
                   store_calls, store_log, store_last, notEl>>

ElNext ==
    \/ ElResolve
    \/ ElMetadata
    \/ ElAuthenticate
    \/ ElAccount
    \/ ElSave

ElSessionInit ==
    /\ LoginIdle
    /\ UuidIdle
    /\ YggIdle
    /\ StoreInit
    /\ JarIdle
    /\ ElInit
    /\ sel = NoSelect
    /\ CmdIdle
    /\ InstIdle
SpecExternalLogin == ElSessionInit /\ [][ElNext]_vars

(* ----------------------------- select_profile --------------------------- *)
NL == "\n"
DigitChars == <<"0", "1", "2", "3", "4", "5", "6", "7", "8", "9">>
IsDigit(c) == \E i \in DOMAIN DigitChars : DigitChars[i] = c
DigitValue(c) == (CHOOSE i \in DOMAIN DigitChars : DigitChars[i] = c) - 1

(* str::trim: white space off both ends *)
RECURSIVE trim_whitespace(_)
trim_whitespace(str) ==
    IF str # <<>> /\ str[1] \in {SPACE, NL} THEN trim_whitespace(Tail(str))
    ELSE IF str # <<>> /\ str[Len(str)] \in {SPACE, NL}
    THEN trim_whitespace(SubSeq(str, 1, Len(str) - 1))
    ELSE str

RECURSIVE DecimalValue(_)
DecimalValue(digits) ==
    IF digits = <<>> THEN 0
    ELSE 10 * DecimalValue(SubSeq(digits, 1, Len(digits) - 1))
         + DigitValue(digits[Len(digits)])

(* str::parse::<usize>: an optional +, then one or more digits *)
parse_usize(str) ==
    LET digits == IF str # <<>> /\ str[1] = "+" THEN Tail(str) ELSE str IN
    IF digits = <<>> \/ \E i \in DOMAIN digits : ~IsDigit(digits[i])
    THEN None
    ELSE Some(DecimalValue(digits))

(* what read_line leaves in `input`: a line with its newline, a last line  *)
(* without one, or nothing at end of input                                 *)
InputLines ==
    {<<"1", NL>>, <<SPACE, "2", SPACE, NL>>, <<"2">>, <<"0", NL>>, <<"3", NL>>,
     <<"x", NL>>, <<>>, <<NL>>, <<"+", "1", NL>>, <<"-", "1", NL>>,
     <<"0", "2", NL>>, <<"1", "2", NL>>, <<"1", SPACE, "2", NL>>}
(* one round of the loop reads a line, or stdout or stdin fails *)
LineRead(text) == [kind |-> "line", text |-> text]
Reads ==
    {LineRead(t) : t \in InputLines}
    \cup {[kind |-> k, text |-> <<>>] : k \in {"flush_failed", "read_failed"}}
SelectLists ==
    {<<>>, <<YggProfile(OtherId, "Alex")>>,
     <<YggProfile(OtherId, "Alex"), YggProfile(ExampleId, "Steve")>>}

(* mutant: the number entered is taken as an index from 0 *)
select_round_from_zero(profiles, read) ==
    IF read.kind # "line" THEN Err("select_profile", "io", 0, "", EmptyBody)
    ELSE LET num == parse_usize(trim_whitespace(read.text)) IN
         IF num.tag = "some" /\ num.val >= 0 /\ num.val < Len(profiles)
         THEN Ok(profiles[num.val + 1])
         ELSE Continue

(* yggdrasil.rs 37-55: one round of the loop of select_profile *)
select_round(profiles, read) ==
    IF read.kind # "line" THEN Err("select_profile", "io", 0, "", EmptyBody)
    ELSE LET num == parse_usize(trim_whitespace(read.text)) IN
         IF num.tag = "some" /\ num.val >= 1 /\ num.val <= Len(profiles)
         THEN Ok(profiles[num.val])
         ELSE Continue

SelectInit ==
    \E profiles \in SelectLists :
        sel = [pc |-> "prompt", profiles |-> profiles, reads |-> <<>>, out |-> Pending]

SelectRound ==
    /\ sel.pc = "prompt"
    /\ Len(sel.reads) < MaxPrompts
    /\ \E read \in Reads :
        LET out == select_round(sel.profiles, read) IN
        sel' = [sel EXCEPT !.reads = Append(sel.reads, read),
                           !.pc = IF out = Continue THEN "prompt" ELSE "done",
                           !.out = IF out = Continue THEN Pending ELSE out]
    /\ UNCHANGED <<loginVars, uuidVars, yggVars, fileVars, notSel>>

SelectSessionInit ==
    /\ LoginIdle
    /\ UuidIdle
    /\ YggIdle
    /\ FilesIdle
    /\ ElIdle
    /\ SelectInit
    /\ CmdIdle
    /\ InstIdle
SpecSelect == SelectSessionInit /\ [][SelectRound]_vars

(* ------------------------- the login and launch commands --------------- *)
OldSession ==
    [access_token |-> "old-token", uuid |-> ExampleUuid, username |-> "Alex"]
(* the AuthCache values a cache file can hold: each field empty or not *)
CachedSessions ==
    {[access_token |-> t, uuid |-> u, username |-> n] :
        t \in {"", "old-token"}, u \in {<<>>, ExampleUuid}, n \in {"", "Alex"}}
CacheFiles ==
    {NoCacheFile, UnreadableCache, UndecodableCache}
    \cup {CacheFile(c) : c \in CachedSessions}

(* launch_manager.rs 75-86, main.rs 307-318: load_auth_cache *)
load_auth_cache(file) ==
    CASE file.tag = "absent" -> Ok(None)
      [] file.tag = "unreadable" -> Err("load_auth_cache", "read", 0, "", EmptyBody)
      [] file.tag = "not_json" -> Err("load_auth_cache", "decode", 0, "", EmptyBody)
      [] file.tag = "session" ->
            IF file.val.access_token = "" \/ file.val.uuid = <<>>
               \/ file.val.username = ""
            THEN Ok(None)
            ELSE Ok(Some(file.val))

Exited(name, exit, report, launched) ==
    [name |-> name, pc |-> "exited", exit |-> exit, report |-> report,
     launched |-> launched]
Running_(name) ==
    [name |-> name, pc |-> "run", exit |-> 0, report |-> "", launched |-> None]

(* mutant: the cache file is emptied when the chain has failed *)
LoginCommandEndClearing ==
    /\ cmd = Running_("login")
    /\ pc = "done"
    /\ \E ev \in WriteOutcomes :
        /\ cache_file' =
             IF result.tag # "ok" THEN NoCacheFile
             ELSE CASE ev = "write" -> CacheFile(result.val)
                    [] ev = "write_failed" -> cache_file
                    [] ev = "write_torn" -> UndecodableCache
        /\ cmd' = IF result.tag = "ok" /\ ev = "write"
                  THEN Exited("login", 0, "Login successful", None)
                  ELSE Exited("login", 1, "error", None)
    /\ UNCHANGED <<loginVars, uuidVars, yggVars, fileVars, notCmd>>

(* main.rs 1064-1075: the login command once the chain has ended: the     *)
(* cache is written, or the error is printed and the process exits with 1; *)
(* a panic of the chain ends the process with 101                         *)
LoginCommandEnd ==
    /\ cmd = Running_("login")
    /\ pc = "done"
    /\ CASE result.tag = "ok" ->
             \E ev \in WriteOutcomes :
                /\ cache_file' =
                     CASE ev = "write" -> CacheFile(result.val)
                       [] ev = "write_failed" -> cache_file
                       [] ev = "write_torn" -> UndecodableCache
                /\ cmd' = IF ev = "write"
                          THEN Exited("login", 0, "Login successful", None)
                          ELSE Exited("login", 1, "error", None)
         [] result.tag = "err" ->
                /\ cmd' = Exited("login", 1, "Authentication failed", None)
                /\ UNCHANGED cache_file
         [] result.tag = "panic" ->
                /\ cmd' = Exited("login", 101, "panic", None)
                /\ UNCHANGED cache_file
    /\ UNCHANGED <<loginVars, uuidVars, yggVars, fileVars, notCmd>>

LaunchReady == cmd = Running_("launch")

(* mutant: a cache with an empty field is launched with *)
LaunchMsaAnyCache ==
    /\ LaunchReady
    /\ LET cache == load_auth_cache(cache_file) IN
       CASE cache.tag = "err" /\ cache_file.tag # "session" ->
                cmd' = Exited("launch", 1, "error", None)
         [] cache.tag = "ok" /\ cache_file.tag # "session" ->
                cmd' = Exited("launch", 1, "AuthNotFound", None)
         [] OTHER ->
                \E started \in BOOLEAN :
                    cmd' = Exited("launch", IF started THEN 0 ELSE 1,
                                  IF started THEN "" ELSE "error",
                                  Some([username |-> cache_file.val.username,
                                        access_token |-> cache_file.val.access_token,
                                        uuid |-> cache_file.val.uuid,
                                        user_type |-> "msa"]))
    /\ UNCHANGED <<loginVars, uuidVars, yggVars, fileVars, notCmd, cache_file>>

(* main.rs 1099-1117: launch --auth-type msa *)
LaunchMsa ==
    /\ LaunchReady
    /\ LET cache == load_auth_cache(cache_file) IN
       CASE cache.tag = "err" -> cmd' = Exited("launch", 1, "error", None)
         [] cache.tag = "ok" /\ cache.val = None ->
                cmd' = Exited("launch", 1, "AuthNotFound", None)
         [] OTHER ->
                \E started \in BOOLEAN :
                    cmd' = Exited("launch", IF started THEN 0 ELSE 1,
                                  IF started THEN "" ELSE "error",
                                  Some([username |-> cache.val.val.username,
                                        access_token |-> cache.val.val.access_token,
                                        uuid |-> cache.val.val.uuid,
                                        user_type |-> "msa"]))
    /\ UNCHANGED <<loginVars, uuidVars, yggVars, fileVars, notCmd, cache_file>>

(* main.rs 1084-1097: launch --auth-type offline reads no cache *)
LaunchOffline ==
    /\ LaunchReady
    /\ \E started \in BOOLEAN :
        cmd' = Exited("launch", IF started THEN 0 ELSE 1,
                      IF started THEN "" ELSE "error",
                      Some([username |-> "Player", access_token |-> "0",
                            uuid |-> <<"0">>, user_type |-> "legacy"]))
    /\ UNCHANGED <<loginVars, uuidVars, yggVars, fileVars, notCmd, cache_file>>

(* the login command beside an earlier session, or a launch command beside *)
(* any cache file                                                          *)
CmdInit ==
    \/ /\ LoginInit
       /\ cache_file = CacheFile(OldSession)
       /\ cmd = Running_("login")
    \/ /\ LoginIdle
       /\ cache_file \in CacheFiles
       /\ cmd = Running_("launch")
CmdSessionInit ==
    /\ CmdInit
    /\ UuidIdle
    /\ YggIdle
    /\ FilesIdle
    /\ ElIdle
    /\ sel = NoSelect
    /\ InstIdle
CmdNext ==
    \/ Next
    \/ LoginCommandEnd
    \/ LaunchMsa
    \/ LaunchOffline
SpecCmd == CmdSessionInit /\ [][CmdNext]_vars

(* ------------------------- install_version ----------------------------- *)
(* what a GET and the streaming of its body into the file come to: the     *)
(* body of the file, the body of an error response (the status is never    *)
(* looked at), no response, no file, or a stream that breaks after the     *)
(* file was created                                                        *)
FileDownloadOutcomes ==
    {"body", "error_page", "send_failed", "create_failed", "stream_failed"}

(* install.rs 380-396: download_file on a path whose file is in state      *)
(* file; the result and the file afterwards                                *)
download_file(file, out) ==
    IF file # "absent"
    THEN [res |-> "Ok", file |-> file]
    ELSE CASE out = "body" -> [res |-> "Ok", file |-> "whole"]
           [] out = "error_page" -> [res |-> "Ok", file |-> "error_page"]
           [] out = "send_failed" -> [res |-> "Err", file |-> "absent"]
           [] out = "create_failed" -> [res |-> "Err", file |-> "absent"]
           [] out = "stream_failed" -> [res |-> "Err", file |-> "partial"]

InstReturn(ret) == [inst EXCEPT !.pc = "done", !.ret = ret]

(* a call on a game directory where each file is there or not, for a       *)
(* version with or without native libraries                                *)
InstInit ==
    \E natives \in BOOLEAN, disk \in [InstFiles -> {"absent", "whole"}] :
        inst = [NoInstall EXCEPT !.pc = "start", !.natives = natives,
                                 !.disk = disk]

(* install.rs 52-56: fetch_version_details(..).await? and create_dir_all   *)
InstStart ==
    /\ inst.pc = "start"
    /\ \E out \in {"details", "fetch_failed", "mkdir_failed"} :
        inst' = IF out = "details"
                THEN [inst EXCEPT !.pc = "first"]
                ELSE InstReturn("Err")
    /\ UNCHANGED <<loginVars, uuidVars, yggVars, fileVars, notInst>>

(* install.rs 82-121: the asset index is downloaded when it is not there;  *)
(* a failure of that download is returned                                  *)
InstFirstPhase ==
    /\ inst.pc = "first"
    /\ \E out \in FileDownloadOutcomes :
        LET d == download_file(inst.disk["index"], out)
            disk == [inst.disk EXCEPT !["index"] = d.file]
        IN  inst' = IF d.res = "Err"
                    THEN [InstReturn("Err") EXCEPT !.disk = disk]
                    ELSE [inst EXCEPT !.pc = "collect", !.disk = disk]
    /\ UNCHANGED <<loginVars, uuidVars, yggVars, fileVars, notInst>>

(* install.rs 65-73, 225-287, 356-378: a task for each file that does not  *)
(* exist; the assets are those of an index that can be read and decoded    *)
InstTasks ==
    {k \in InstKinds :
        /\ inst.disk[k] = "absent"
        /\ k = "native" => inst.natives
        /\ k = "asset" => inst.disk["index"] = "whole"}

(* install.rs 123-150: the tasks are collected; with nothing to download   *)
(* and nothing to extract the call returns                                 *)
InstCollect ==
    /\ inst.pc = "collect"
    /\ inst' = IF InstTasks = {} /\ ~inst.natives
               THEN InstReturn("Ok")
               ELSE [inst EXCEPT !.pc = "download", !.tasks = InstTasks]
    /\ UNCHANGED <<loginVars, uuidVars, yggVars, fileVars, notInst>>

(* install.rs 164-180: one spawned download of the second phase, in any    *)
(* order                                                                   *)
InstDownload(k) ==
    /\ inst.pc = "download"
    /\ k \in inst.tasks
    /\ inst.results[k] = "none"
    /\ \E out \in FileDownloadOutcomes :
        LET d == download_file(inst.disk[k], out)
        IN  inst' = [inst EXCEPT !.results[k] = d.res, !.disk[k] = d.file]
    /\ UNCHANGED <<loginVars, uuidVars, yggVars, fileVars, notInst>>

(* install.rs 182-206: the results are gone through and the failures       *)
(* printed, the native jar that exists is extracted, the version JSON is   *)
(* written and the version reported installed                              *)
InstFinish ==
    /\ inst.pc = "download"
    /\ \A k \in inst.tasks : inst.results[k] # "none"
    /\ \E ext \in {"extracted", "extract_failed"}, ev \in WriteOutcomes :
        LET extracted ==
                \/ ~inst.natives
                \/ inst.disk["native"] = "absent"
                \/ inst.disk["native"] = "whole" /\ ext = "extracted"
        IN  inst' =
              IF ~extracted THEN InstReturn("Err")
              ELSE CASE ev = "write" ->
                          [InstReturn("Ok") EXCEPT !.json = "written",
                                                   !.reported = TRUE]
                     [] ev = "write_failed" -> InstReturn("Err")
                     [] ev = "write_torn" ->
                          [InstReturn("Err") EXCEPT !.json = "torn"]
    /\ UNCHANGED <<loginVars, uuidVars, yggVars, fileVars, notInst>>

InstNext ==
    \/ InstStart
    \/ InstFirstPhase
    \/ InstCollect
    \/ \E k \in InstKinds : InstDownload(k)
    \/ InstFinish
InstSessionInit ==
    /\ LoginIdle
    /\ UuidIdle
    /\ YggIdle
    /\ FilesIdle
    /\ ElIdle
    /\ sel = NoSelect
    /\ CmdIdle
    /\ InstInit
SpecInstall == InstSessionInit /\ [][InstNext]_vars

(* every await returns: a request gets its response or its error, a sleep *)
(* ends                                                                   *)
FairSpec == Spec /\ WF_vars(Next)

(* ===================== properties of the poll loop ====================== *)
Indices(kind) == {i \in DOMAIN trace : trace[i].ev = kind}
PollIdx == Indices("poll")
SleepIdx == Indices("sleep")
NumPolls == Cardinality(PollIdx)
NumSleeps == Cardinality(SleepIdx)
LastPoll == CHOOSE i \in PollIdx : \A j \in PollIdx : j <= i

(* what the servers said, read off the response alone *)
Is2xx(res) == res.status \in 200..299
IsTokenSet(res) == Is2xx(res) /\ res.body.kind = "struct"
HasErrorCode(res, codes) ==
    /\ res.status = 400
    /\ res.body.kind = "json_error"
    /\ res.body.error \in codes
IsPending(res) == HasErrorCode(res, {"authorization_pending"})
KeepsPolling(res) == HasErrorCode(res, {"authorization_pending", "slow_down"})

ExpiresInTicks == device_code_res.expires_in * TicksPerSec
IntervalTicks ==
    (IF device_code_res.interval = 0 THEN 1 ELSE device_code_res.interval)
        * TicksPerSec

MsaReturnedOk == pc \in {"xbl", "xsts", "mc_login", "profile", "format"}
                   \/ (pc = "done" /\ "xbl" \in {trace[i].ev : i \in DOMAIN trace})

(* C1 (as claimed): no token-poll request is issued when the time elapsed  *)
(* since polling began exceeds expires_in seconds.                         *)
C1_NoPollPastDeadline ==
    \A i \in PollIdx : trace[i].at <= ExpiresInTicks

(* C2 (as claimed): no sleep of the poll loop ends later than expires_in   *)
(* seconds after polling began; with interval > expires_in the flow fails  *)
(* with Timeout instead of sleeping.                                       *)
C2_NoSleepPastDeadline ==
    /\ \A i \in SleepIdx : trace[i].end <= ExpiresInTicks
    /\ (pc = "done" /\ trace # <<>> /\ IsTokenSet(trace[1].res)
            /\ device_code_res.interval > device_code_res.expires_in)
        => (result.tag = "err" /\ result.kind = "timeout" /\ PollIdx = {})

(* n authorization_pending replies followed by a success *)
PendingThenSuccess ==
    /\ MsaReturnedOk
    /\ \A i \in PollIdx :
        IF i = LastPoll THEN IsTokenSet(trace[i].res) ELSE IsPending(trace[i].res)
NumPending == NumPolls - 1

(* C3 (as claimed): after n authorization_pending replies and a success,   *)
(* the token set is returned after exactly n sleeps.                       *)
C3_Original_ExactlyNSleeps ==
    PendingThenSuccess => NumSleeps = NumPending

(* C3 (amended): after n authorization_pending replies and a success, the  *)
(* success token set is returned after exactly n + 1 sleeps of             *)
(* poll_interval, one before each of the n + 1 poll requests.              *)
C3_SleepsAreNPlusOne ==
    PendingThenSuccess =>
        /\ NumSleeps = NumPending + 1
        /\ \A i \in SleepIdx : trace[i].dur = IntervalTicks
        /\ ms_access_token = trace[LastPoll].res.body.val.access_token

C3_Witness_TwoPendingThenSuccess ==
    PendingThenSuccess /\ NumPending = 2 /\ NumSleeps = 3

LoopLeft == pc \notin {"device_code", "loop", "sleep", "poll"}

(* C4: the poll loop terminates: at most floor(expires_in / max(interval,  *)
(* 1)) + 1 polls are ever sent, the loop is eventually left, and a server  *)
(* that only ever answers authorization_pending or slow_down leads to the  *)
(* Timeout error.                                                          *)
C4_PollLoopTerminates ==
    /\ [](NumPolls <= (ExpiresInTicks \div IntervalTicks) + 1)
    /\ <>LoopLeft
    /\ []((pc = "done" /\ PollIdx # {}
            /\ \A i \in PollIdx : KeepsPolling(trace[i].res))
          => (result.tag = "err" /\ result.kind = "timeout"))

C4_Witness_TimeoutAfterMaxPolls ==
    /\ pc = "done"
    /\ result.tag = "err" /\ result.kind = "timeout"
    /\ NumPolls = (ExpiresInTicks \div IntervalTicks) + 1
    /\ NumPolls >= 2
    /\ \A i \in PollIdx : KeepsPolling(trace[i].res)

(* the state right after a poll response has been handled, or later in    *)
(* the same iteration                                                     *)
LastIsPoll == trace # <<>> /\ trace[Len(trace)].ev = "poll"
LastRes == trace[Len(trace)].res
CarriesStatusAndBody(e, res) ==
    /\ e.status = res.status
    /\ res.body.kind # "unreadable" => e.body = res.body

(* the outcomes C5 gives for the responses that are not a 2xx *)
C5_Non2xxOutcome(res) ==
    IF KeepsPolling(res)
    THEN \/ pc \in {"loop", "sleep"} /\ result.tag = "running"
         \/ pc = "done" /\ result.tag = "err" /\ result.kind = "timeout"
    ELSE /\ pc = "done"
         /\ result.tag = "err"
         /\ result.stage = "poll"
         /\ IF HasErrorCode(res, {"expired_token"})
            THEN result.kind = "expired"
            ELSE IF res.status = 400 /\ res.body.kind = "json_error"
            THEN /\ result.kind = "provider_code"
                 /\ result.code = res.body.error
                 /\ result.body = res.body
            ELSE /\ result.kind = "status"
                 /\ CarriesStatusAndBody(result, res)

C5_OnlyContinueRepeats ==
    \A i \in PollIdx : i # LastPoll => KeepsPolling(trace[i].res)

(* C5 (as claimed): the loop repeats only after 400 authorization_pending  *)
(* or slow_down; every 2xx returns the token set; the other responses end  *)
(* the loop with Expired or a ProviderError.                               *)
C5_Original_Every2xxReturnsTokens ==
    /\ C5_OnlyContinueRepeats
    /\ (LastIsPoll /\ LastRes # NoResponse) =>
        IF Is2xx(LastRes)
        THEN pc = "xbl" /\ result.tag = "running" /\ ms_access_token # ""
        ELSE C5_Non2xxOutcome(LastRes)

(* C5 (amended): the loop repeats only after 400 authorization_pending or  *)
(* slow_down; a 2xx whose body deserialises as a token response returns    *)
(* that token set and a 2xx whose body does not ends the loop with the     *)
(* deserialisation error; the other responses end the loop with Expired or *)
(* a ProviderError as claimed.                                             *)
C5_PollResponseClassification ==
    /\ C5_OnlyContinueRepeats
    /\ (LastIsPoll /\ LastRes # NoResponse) =>
        IF Is2xx(LastRes)
        THEN IF LastRes.body.kind = "struct"
             THEN /\ pc = "xbl" /\ result.tag = "running"
                  /\ ms_access_token = LastRes.body.val.access_token
             ELSE /\ pc = "done" /\ result.tag = "err"
                  /\ result.stage = "poll" /\ result.kind = "decode"
        ELSE C5_Non2xxOutcome(LastRes)

C5_Witness_ExpiredAfterSlowDown ==
    /\ NumPolls = 2
    /\ LastIsPoll
    /\ HasErrorCode(LastRes, {"expired_token"})
    /\ \E i \in PollIdx : HasErrorCode(trace[i].res, {"slow_down"})
    /\ result.tag = "err" /\ result.kind = "expired"

PollContinues == pc = "poll" /\ pc' = "loop"

(* C6: an authorization_pending or slow_down reply changes no polling     *)
(* state: device_code, client_id, sleep interval and deadline of the next *)
(* iteration are those of the previous one.                               *)
C6_ContinueChangesNothing ==
    /\ [][PollContinues =>
            UNCHANGED <<poll_params, client_id, poll_interval,
                        timeout_duration, start_time>>]_vars
    /\ [](\A i, j \in PollIdx : trace[i].params = trace[j].params)
    /\ [](\A i, j \in SleepIdx : trace[i].dur = trace[j].dur)

C6_Witness_SleepAfterSlowDown ==
    /\ NumSleeps = 2
    /\ NumPolls = 1
    /\ HasErrorCode(trace[LastPoll].res, {"slow_down"})

(* C7: every token-poll request, the first one included, is immediately   *)
(* preceded by exactly one sleep of max(interval, 1) seconds.             *)
C7_SleepBeforeEveryPoll ==
    \A i \in PollIdx :
        /\ i > 1
        /\ trace[i - 1].ev = "sleep"
        /\ trace[i - 1].dur = IntervalTicks
        /\ trace[i - 1].end = trace[i].at
        /\ i > 2 => trace[i - 2].ev # "sleep"

C7_Witness_ZeroIntervalPoll ==
    /\ device_code_res.interval = 0
    /\ NumPolls = 2
    /\ \A i \in SleepIdx : trace[i].dur = TicksPerSec

DeviceCodeRes == trace[1].res
DeviceCodeRefused ==
    /\ trace # <<>>
    /\ DeviceCodeRes # NoResponse
    /\ ~Is2xx(DeviceCodeRes)

(* C8: a non-2xx device-code response ends authenticate_with_msa with a   *)
(* provider error carrying the status and the body, and no poll request   *)
(* and no sleep is ever performed.                                        *)
C8_DeviceCodeRefusalIsTerminal ==
    DeviceCodeRefused =>
        /\ pc = "done"
        /\ result.tag = "err"
        /\ result.stage = "device_code"
        /\ result.kind = "status"
        /\ CarriesStatusAndBody(result, DeviceCodeRes)
        /\ Len(trace) = 1
        /\ PollIdx = {} /\ SleepIdx = {}

C8_Witness_DeviceCode400 ==
    /\ DeviceCodeRefused
    /\ DeviceCodeRes.status = 400
    /\ DeviceCodeRes.body.kind = "json_other"
    /\ pc = "done"

(* ================= properties of perform_full_authentication =========== *)
(* the step of the chain an event or an error belongs to *)
StepOf(stage) ==
    CASE stage \in {"device_code", "sleep", "poll"} -> 1
      [] stage = "xbl" -> 2
      [] stage = "xsts" -> 3
      [] stage = "mc_login" -> 4
      [] stage = "profile" -> 5

IsRequest(e) == e.ev # "sleep"
(* the response lets the step return Ok *)
Succeeded(e) ==
    /\ Is2xx(e.res)
    /\ e.res.body.kind = "struct"
    /\ e.ev \in {"xbl", "xsts"} => e.res.body.val.xui # <<>>
Last == trace[Len(trace)]
EventOf(stage) == trace[CHOOSE i \in DOMAIN trace : trace[i].ev = stage]

C9_FixedOrder ==
    /\ trace # <<>> => trace[1].ev = "device_code"
    /\ \A i, j \in DOMAIN trace :
        /\ i < j => StepOf(trace[i].ev) <= StepOf(trace[j].ev)
        /\ (i # j /\ trace[i].ev = trace[j].ev) => trace[i].ev \in {"sleep", "poll"}
    /\ \A i \in DOMAIN trace :
        i > 1 => StepOf(trace[i].ev) <= StepOf(trace[i - 1].ev) + 1

C9_StartsAfterSuccess ==
    /\ \A i \in DOMAIN trace :
        (i > 1 /\ IsRequest(trace[i - 1])) =>
            \/ Succeeded(trace[i - 1])
            \/ trace[i - 1].ev = "poll" /\ KeepsPolling(trace[i - 1].res)
    /\ (pc = "format" \/ result.tag \in {"ok", "panic"}) =>
            Last.ev = "profile" /\ Succeeded(Last)

C9_FailureAborts ==
    result.tag \in {"err", "panic"} =>
        /\ pc = "done"
        /\ result.tag = "err" =>
            /\ StepOf(result.stage) = StepOf(Last.ev)
            /\ result.kind # "timeout" =>
                /\ IsRequest(Last)
                /\ result.stage = Last.ev
                /\ ~Succeeded(Last)
                /\ result.kind = "transport" <=> Last.res = NoResponse
                /\ result.kind = "status" => CarriesStatusAndBody(result, Last.res)

(* C9: the chain runs device-code/poll, XBL, XSTS, Minecraft login,       *)
(* profile fetch and session formatting in that order; a step starts only *)
(* after the steps before it succeeded; when a step fails no later step   *)
(* issues a request, no Session is produced and the error returned is the *)
(* failing step's.                                                        *)
C9_SequentialChain ==
    /\ C9_FixedOrder
    /\ C9_StartsAfterSuccess
    /\ C9_FailureAborts

C9_Witness_XstsDenied ==
    /\ pc = "done"
    /\ Last.ev = "xsts"
    /\ Last.res.status = 403
    /\ result.tag = "err" /\ result.stage = "xsts"
    /\ result.kind = "child_account"

LoginReturned == EventOf("mc_login").res.body.val
ProfileFetched == EventOf("profile").res.body.val
(* the position in the dashed form of the k-th character of the id *)
DashedPos(k) ==
    k + (IF k <= 8 THEN 0 ELSE IF k <= 12 THEN 1 ELSE IF k <= 16 THEN 2
         ELSE IF k <= 20 THEN 3 ELSE 4)

IsDashedFormOf(uuid, id) ==
    /\ Len(uuid) = 36
    /\ \A h \in {9, 14, 19, 24} : uuid[h] = "-"
    /\ \A k \in 1..32 : uuid[DashedPos(k)] = id[k]

(* C10: when every step succeeds, the Session's access_token is the one   *)
(* the Minecraft login returned (not the MSA, XBL or XSTS token), its     *)
(* uuid is the dashed form of the fetched profile's 32-character id and   *)
(* its username is the fetched profile's name (not the login response's); *)
(* profile 0123456789abcdef0123456789abcdef / Steve gives                 *)
(* 01234567-89ab-cdef-0123-456789abcdef / Steve.                          *)
C10_SessionFromLoginAndProfile ==
    (result.tag = "ok" /\ Len(ProfileFetched.id) = 32) =>
        LET session == result.val IN
        /\ session.access_token = LoginReturned.access_token
        /\ session.access_token \notin
             {EventOf("poll").params.device_code, ms_access_token,
              EventOf("xbl").res.body.val.token,
              EventOf("xsts").res.body.val.token}
        /\ IsDashedFormOf(session.uuid, ProfileFetched.id)
        /\ session.username = ProfileFetched.name
        /\ (ProfileFetched.id = ExampleId /\ ProfileFetched.name = "Steve") =>
              session.uuid = ExampleUuid /\ session.username = "Steve"

C10_Witness_SteveSession ==
    /\ result.tag = "ok"
    /\ ProfileFetched.id = ExampleId
    /\ ProfileFetched.name = "Steve"
    /\ LoginReturned.username = "Alex"
    /\ result.val = [access_token |-> "mc-tok", uuid |-> ExampleUuid,
                     username |-> "Steve"]

(* ------------------------- the uuid formatters ------------------------- *)
IsHex(str) == \A i \in 1..Len(str) : \E d \in 1..16 : str[i] = HexDigits[d]
IsHex32(str) == Len(str) = 32 /\ IsHex(str)

(* C11: for every 32-character hex string s, the formatting that builds   *)
(* the Session (and format_uuid) returns a 36-character string with       *)
(* hyphens at 0-based indices 8, 13, 18, 23 whose other characters, in    *)
(* order, are exactly s (groups 8-4-4-4-12).                              *)
C11_DashedForm ==
    IsHex32(fu_input) =>
        /\ fu_session # Pending =>
              /\ fu_session.tag = "ok"
              /\ IsDashedFormOf(fu_session.val.uuid, fu_input)
              /\ Len(fu_session.val.uuid) = 36
              /\ \A i \in 1..36 :
                    fu_session.val.uuid[i] = "-" <=> i \in {9, 14, 19, 24}
        /\ fu_formatted # Pending =>
              /\ fu_formatted.tag = "ok"
              /\ IsDashedFormOf(fu_formatted.val, fu_input)

C11_Witness_RotatedHex ==
    /\ fu_input = HexString(32, 3)
    /\ fu_session.tag = "ok"
    /\ fu_session.val.uuid[1] = "3"
    /\ fu_session.val.uuid[10] = "b"
    /\ fu_formatted.tag = "ok"

(* C12: if the profile fetched in the Microsoft chain has an id that is   *)
(* not exactly 32 hex characters (shorter, longer or with non-hex         *)
(* characters), perform_full_authentication returns a malformed-response  *)
(* error and produces no Session.                                         *)
C12_BadProfileIdIsRejected ==
    (pc = "done" /\ profile # NoProfile /\ ~IsHex32(profile.id)) =>
        /\ result.tag = "err"
        /\ result.kind = "malformed_response"

(* the dashed canonical form: 36 characters, hyphens at 9, 14, 19, 24     *)
(* (1-based), hex digits elsewhere                                        *)
IsCanonicalUuid(u) ==
    /\ Len(u) = 36
    /\ \A i \in 1..36 :
         IF i \in {9, 14, 19, 24} THEN u[i] = "-" ELSE IsHex(<<u[i]>>)

(* C13: in every reachable state, every Session produced by the Microsoft *)
(* chain and every Account produced from a Yggdrasil authenticate         *)
(* response has a uuid in the dashed canonical 8-4-4-4-12 form, whatever  *)
(* id string the provider returned.                                       *)
C13_SessionUuidCanonical ==
    /\ result.tag = "ok" => IsCanonicalUuid(result.val.uuid)
    /\ fu_session.tag = "ok" => IsCanonicalUuid(fu_session.val.uuid)
C13_AccountUuidCanonical ==
    acct_out.tag = "ok" => IsCanonicalUuid(acct_out.val.uuid)
C13_UuidAlwaysCanonical ==
    /\ C13_SessionUuidCanonical
    /\ C13_AccountUuidCanonical

(* format_uuid(format_uuid(s)) = format_uuid(s) where the first call      *)
(* returns                                                                *)
IdempotentWhereItReturns ==
    (fu_formatted.tag = "ok" /\ fu_again # Pending) =>
        /\ fu_again = fu_formatted
        /\ IsCanonicalUuid(fu_input) => fu_again.val = fu_input

(* C14: format_uuid is idempotent: for every input string s,              *)
(* format_uuid(format_uuid(s)) = format_uuid(s); in particular            *)
(* re-applying it to an already-dashed 36-character UUID returns that     *)
(* UUID unchanged.                                                        *)
C14_FormatUuidIdempotent ==
    /\ fu_formatted \notin {Idle, Pending} => fu_formatted.tag = "ok"
    /\ IdempotentWhereItReturns

(* every character of str is one byte, so its 32 bytes are 32 characters *)
IsAscii(str) == \A i \in 1..Len(str) : str[i] \notin {LeadByte, ContByte}
IsUndashed32(str) == Len(str) = 32 /\ IsAscii(str)

(* the profile the Account is built from *)
ProfileUsed ==
    IF acct_in.response.selected_profile.tag = "some"
    THEN acct_in.response.selected_profile.val
    ELSE acct_in.picked.val.val

(* C15: the Yggdrasil path and the Microsoft path format UUIDs            *)
(* identically: for every 32-character undashed id, format_uuid returns   *)
(* the same string as the formatting in perform_full_authentication, and  *)
(* an Account built from an authenticate response applies it to both the  *)
(* selected profile id (uuid) and the user id (user_id).                  *)
C15_SameFormatting ==
    /\ (IsUndashed32(fu_input) /\ fu_formatted # Pending
            /\ fu_session # Pending) =>
          /\ fu_formatted.tag = "ok"
          /\ fu_session.tag = "ok"
          /\ fu_formatted.val = fu_session.val.uuid
    /\ acct_out.tag = "ok" =>
          LET pid == ProfileUsed.id
              uid == acct_in.response.user.val.id
          IN  /\ IsUndashed32(pid) =>
                    /\ acct_out.val.uuid = FormattedUuid(pid)
                    /\ IsDashedFormOf(acct_out.val.uuid, pid)
              /\ IsUndashed32(uid) =>
                    /\ acct_out.val.user_id = FormattedUuid(uid)
                    /\ IsDashedFormOf(acct_out.val.user_id, uid)

C15_Witness_AccountBothFormatted ==
    /\ acct_out.tag = "ok"
    /\ acct_in.response.selected_profile = None
    /\ ProfileUsed = YggProfile(NonHexId, "Steve")
    /\ acct_in.response.user.val.id = ExampleId
    /\ acct_out.val.user_id = ExampleUuid
    /\ acct_out.val.uuid[5] = "g"
    /\ acct_out.val.uuid[9] = "-"

(* the XErr codes a response body contains *)
CodesIn(res) ==
    IF res.body.kind # "unreadable" /\ res.body.val.k = "text"
    THEN res.body.val.contains
    ELSE {}
XstsAnswered == trace # <<>> /\ Last.ev = "xsts" /\ Last.res # NoResponse

(* C16: get_xsts_token classifies failures: a 403 whose body contains     *)
(* 2148916233 is the no-Xbox-account denial, 2148916238 the child-account *)
(* denial, 2148916235 the region denial (looked for in this order when a  *)
(* body holds several); a 403 with none of them, and every other non-2xx  *)
(* status even with a code in its body, is the generic error with status  *)
(* and body.                                                              *)
C16_XstsFailureClassification ==
    (XstsAnswered /\ ~Is2xx(Last.res)) =>
        LET res == Last.res
            codes == CodesIn(res)
            known == {XERR_NO_XBOX, XERR_CHILD, XERR_REGION}
        IN  /\ pc = "done"
            /\ result.tag = "err"
            /\ result.stage = "xsts"
            /\ IF res.status = 403 /\ codes \cap known # {}
               THEN /\ XERR_NO_XBOX \in codes =>
                         result.kind = "no_xbox_account"
                    /\ (XERR_CHILD \in codes /\ XERR_NO_XBOX \notin codes) =>
                         result.kind = "child_account"
                    /\ codes \cap known = {XERR_REGION} =>
                         result.kind = "region_banned"
                    /\ result.kind \in {"no_xbox_account", "child_account",
                                        "region_banned"}
                    /\ result.code \in codes
               ELSE /\ result.kind = "status"
                    /\ CarriesStatusAndBody(result, res)
                    /\ res.body.kind = "unreadable" => result.body = EmptyBody

C16_Witness_CodeUnder500 ==
    /\ XstsAnswered
    /\ Last.res.status = 500
    /\ CodesIn(Last.res) = {XERR_NO_XBOX}
    /\ result.tag = "err"
    /\ result.kind = "status"
    /\ result.status = 500

HasEvent(stage) == \E i \in DOMAIN trace : trace[i].ev = stage
XblDecoded ==
    /\ HasEvent("xbl")
    /\ Is2xx(EventOf("xbl").res)
    /\ EventOf("xbl").res.body.kind = "struct"

(* C17: a 2xx XBL response whose DisplayClaims.xui is empty makes         *)
(* get_xbl_token fail with the missing-user-hash error and no token is    *)
(* returned; otherwise the user hash returned is the uhs of the first xui *)
(* entry and the token returned is the response's Token.                  *)
C17_XblUserHash ==
    XblDecoded =>
        LET body == EventOf("xbl").res.body.val IN
        IF body.xui = <<>>
        THEN /\ pc = "done"
             /\ Last.ev = "xbl"
             /\ result.tag = "err"
             /\ result.stage = "xbl"
             /\ result.kind = "missing_user_hash"
             /\ xbl = NoXboxToken
        ELSE /\ xbl.token = body.token
             /\ xbl.user_hash = body.xui[1]
             /\ HasEvent("xsts") => EventOf("xsts").user_token = body.token
             /\ HasEvent("mc_login") =>
                   EventOf("mc_login").identity_user_hash = body.xui[1]

C17_Witness_FirstOfTwoHashes ==
    /\ XblDecoded
    /\ EventOf("xbl").res.body.val.xui = <<"uhs-xbl-2", "uhs-xbl">>
    /\ xbl.user_hash = "uhs-xbl-2"
    /\ HasEvent("mc_login")

(* ------------------------------ no retries ----------------------------- *)
Count(stage) == Cardinality({i \in DOMAIN trace : trace[i].ev = stage})
OneShotSteps == {"xbl", "xsts", "mc_login", "profile"}
(* the step function of this stage has been called and has returned *)
Invoked(stage) ==
    \/ pc \in {"xsts", "mc_login", "profile"} /\ StepOf(pc) > StepOf(stage)
    \/ pc = "format"
    \/ pc = "done" /\ result.tag \in {"ok", "panic"}
    \/ pc = "done" /\ result.tag = "err" /\ StepOf(result.stage) >= StepOf(stage)
RequestsOf(call) == {i \in DOMAIN ygg_log : ygg_log[i].call = call}

(* C18: no single-step operation retries: each invocation of              *)
(* get_xbl_token, get_xsts_token, login_to_minecraft,                     *)
(* get_minecraft_profile, resolve_api_url, get_api_metadata,              *)
(* authenticate, validate, refresh and invalidate sends exactly one       *)
(* request, whether it succeeds or fails (resolve_api_url does not fetch  *)
(* the URL its header names); only the device-code poll is repeated.      *)
C18_OneRequestPerInvocation ==
    /\ \A st \in OneShotSteps :
         Count(st) = IF Invoked(st) THEN 1 ELSE 0
    /\ \A i, j \in DOMAIN trace :
         (i # j /\ trace[i].ev = trace[j].ev) => trace[i].ev \in {"sleep", "poll"}
    /\ Len(ygg_log) = ygg_calls
    /\ \A call \in 1..ygg_calls : Cardinality(RequestsOf(call)) = 1
    /\ ygg_pc = "resolved" =>
         /\ ygg_calls = 1
         /\ ygg_log[1] = Request(1, "resolve_api_url", RequestUrl(initial_url))
    /\ ygg_last # NoCall =>
         ygg_log[Len(ygg_log)] =
             Request(ygg_calls, ygg_last.op, Append(api_url, YggPath(ygg_last.op)))

C18_Witness_HeaderHopNotFollowed ==
    /\ ygg_pc = "resolved"
    /\ resolved = Ok(HTTPS \o <<"b", "/", "a", "p", "i">>)
    /\ initial_url = <<"a">>
    /\ Len(ygg_log) = 1

(* --------------------------- resolve_api_url --------------------------- *)
Answered == ygg_pc = "resolved" /\ ali_res # NoAliResponse
Requested == ygg_log[1].url
(* the header the code goes by: present, readable as text, not empty *)
HeaderUsable ==
    /\ ali_res.status \in 200..299
    /\ ali_res.ali.tag = "some"
    /\ ali_res.ali.val.visible
    /\ ali_res.ali.val.value # <<>>
HeaderPresent ==
    /\ ali_res.status \in 200..299
    /\ ali_res.ali.tag = "some"
    /\ ali_res.ali.val.value # <<>>
Resolution(against) == UrlJoin(UrlParse(against), ali_res.ali.val.value)

(* C19 as it was stated: the original URL is returned unchanged when the  *)
(* response is not a success or the header is absent or empty; the        *)
(* absolute URL the header resolves to is returned when the header is     *)
(* present, non-empty and that URL differs from the input.                *)
C19_Original_InputUnchangedOrAbsolute ==
    Answered =>
        IF ~HeaderPresent
        THEN resolved = Ok(initial_url)
        ELSE (/\ Resolution(Requested).tag = "ok"
              /\ UrlToString(Resolution(Requested).val) # initial_url) =>
                resolved = Ok(UrlToString(Resolution(Requested).val))

(* C19: resolve_api_url returns the requested URL (the normalised input)  *)
(* when the response is not a success or the header is absent, empty or   *)
(* not text; when the header is usable it returns the absolute URL the    *)
(* value resolves to against the requested URL, without its trailing      *)
(* slashes, if that URL differs from the requested one, the requested URL *)
(* if it does not, and an error if the value cannot be resolved.          *)
C19_RequestedOrHeaderUrl ==
    Answered =>
        IF ~HeaderUsable
        THEN resolved = Ok(Requested)
        ELSE LET abs == Resolution(Requested) IN
             IF abs.tag = "err"
             THEN resolved.tag = "err" /\ resolved.kind = "join"
             ELSE IF UrlToString(abs.val) # Requested
             THEN resolved = Ok(trim_end_matches(UrlToString(abs.val), SLASH))
             ELSE resolved = Ok(Requested)

C19_Witness_RelativeHeader ==
    /\ Answered
    /\ initial_url = <<"a", "/", "x", "/">>
    /\ HeaderUsable
    /\ ali_res.ali.val.value = <<"a", "p", "i", "/">>
    /\ resolved = Ok(HTTPS \o <<"a", "/", "a", "p", "i">>)

Returned == ygg_pc = "resolved" /\ resolved.tag = "ok"
OriginalBranch ==
    \/ ~HeaderUsable
    \/ /\ Resolution(Requested).tag = "ok"
       /\ UrlToString(Resolution(Requested).val) = Requested
NoTrailingSlash(str) == str = <<>> \/ str[Len(str)] # SLASH
(* the trimmed input without its trailing slashes, https:// put before it *)
(* when the trimmed input starts with neither scheme                      *)
NormalisedInput ==
    IF HasScheme(trim(initial_url))
    THEN trim_end_matches(trim(initial_url), SLASH)
    ELSE HTTPS \o trim_end_matches(trim(initial_url), SLASH)

(* what of C20 holds for every input *)
ReturnedUrlIsStable ==
    Returned =>
        /\ NoTrailingSlash(resolved.val)
        /\ new_api_url(resolved.val) = resolved.val
        /\ OriginalBranch => RequestUrl(resolved.val) = resolved.val

(* C20: every URL resolve_api_url returns, header-derived or original,    *)
(* has no trailing slash; on the original-URL branch it is the trimmed    *)
(* input without trailing slashes, with https:// prefixed exactly when    *)
(* the input starts with neither http:// nor https://; normalising a      *)
(* normalised URL changes nothing.                                        *)
C20_ReturnedUrlNormalised ==
    /\ ReturnedUrlIsStable
    /\ (Returned /\ OriginalBranch) => resolved.val = NormalisedInput

(* ------------------------- the authenticator's calls ------------------- *)
LastCallIs(ops) == ygg_last.op \in ops /\ ygg_last.res # NoResponse

(* C21: when authenticate or refresh receives a non-2xx response it       *)
(* returns an error and no response value: the error carries error and    *)
(* errorMessage when the body parses as a structured error, the HTTP      *)
(* status and the body otherwise.                                         *)
C21_YggErrorSurfaced ==
    (LastCallIs({"authenticate", "refresh"}) /\ ~Is2xx(ygg_last.res)) =>
        LET res == ygg_last.res
            out == ygg_last.out
        IN  /\ out.tag = "err"
            /\ out.stage = ygg_last.op
            /\ IF res.body.kind = "ygg_error"
               THEN /\ out.kind = "server_error"
                    /\ out.code = res.body.val.error
                    /\ out.body.val.errorMessage = res.body.val.errorMessage
               ELSE /\ out.kind = "status"
                    /\ CarriesStatusAndBody(out, res)
                    /\ res.body.kind = "unreadable" => out.body = EmptyBody

C21_Witness_RefreshForbidden ==
    /\ LastCallIs({"refresh"})
    /\ ygg_last.res.status = 403
    /\ ygg_last.res.body.kind = "ygg_error"
    /\ ygg_last.out.tag = "err"
    /\ ygg_last.out.code = "ForbiddenOperationException"
    /\ ygg_calls = 2

(* ------------------------- building the Account ------------------------ *)
AccountBuilt == acct_out \notin {Idle, Pending}
(* u is the uuid the Account gets for this profile *)
IsUuidOf(u, prof) ==
    IF IsUndashed32(prof.id) THEN IsDashedFormOf(u, prof.id) ELSE u = prof.id
IsAccountOf(acct, prof) == acct.name = prof.name /\ IsUuidOf(acct.uuid, prof)

(* C22: building an Account from an authenticate response: a present      *)
(* selectedProfile is used and select_profile is not called; with none    *)
(* and no availableProfiles the result is the no-profiles error, without  *)
(* a call of select_profile; with none and available profiles             *)
(* select_profile is called and the Account's uuid and name are those of  *)
(* one of the available profiles.                                         *)
C22_ProfileResolution ==
    AccountBuilt =>
        LET r == acct_in.response IN
        IF r.selected_profile.tag = "some"
        THEN /\ selector_calls = 0
             /\ acct_out.tag = "ok" =>
                   IsAccountOf(acct_out.val, r.selected_profile.val)
        ELSE IF r.available_profiles = <<>>
        THEN /\ selector_calls = 0
             /\ acct_out.tag = "err"
             /\ acct_out.kind = "no_profiles"
        ELSE /\ selector_calls = 1
             /\ acct_out.tag = "ok" =>
                   /\ \E k \in DOMAIN r.available_profiles :
                         IsAccountOf(acct_out.val, r.available_profiles[k])
                   /\ IsAccountOf(acct_out.val, acct_in.picked.val.val)

C22_Witness_SecondOfTwoPicked ==
    /\ AccountBuilt
    /\ acct_in.response.selected_profile = None
    /\ Len(acct_in.response.available_profiles) = 2
    /\ acct_in.picked.val = Ok(YggProfile(ExampleId, "Steve"))
    /\ selector_calls = 1
    /\ acct_out.tag = "ok"
    /\ acct_out.val.name = "Steve"
    /\ acct_out.val.uuid = ExampleUuid

(* C23: validate and invalidate never return an error: each returns true  *)
(* exactly when its request completed with a 2xx status, false for every  *)
(* other status and for every transport failure.                          *)
C23_ValidateIsBoolean ==
    ygg_last.op \in {"validate", "invalidate"} =>
        /\ ygg_last.out.tag = "ok"
        /\ ygg_last.out.val \in BOOLEAN
        /\ ygg_last.out.val <=>
              (ygg_last.res # NoResponse /\ Is2xx(ygg_last.res))
        /\ Cardinality(RequestsOf(ygg_calls)) = 1

C23_Witness_InvalidateUnreachable ==
    /\ ygg_last.op = "invalidate"
    /\ ygg_last.res = NoResponse
    /\ ygg_last.out = Ok(FALSE)
    /\ ygg_log[1].op = "validate"

(* ------------------------------------------------------------------------ *)
(* the account store                                                        *)
KeyOf(a) == <<a.identifier, trim_end_matches(a.api_url, SLASH)>>
Events(ev) == SelectSeq(store_log, LAMBDA e : e.ev = ev)
Upserted == Events("write")
UpsertedKeys == {KeyOf(Upserted[i].account) : i \in DOMAIN Upserted}
LatestUpsert(k) ==
    LET i == CHOOSE i \in DOMAIN Upserted :
                 /\ KeyOf(Upserted[i].account) = k
                 /\ \A j \in DOMAIN Upserted :
                        KeyOf(Upserted[j].account) = k => j <= i
    IN Upserted[i].account
RecordsOf(list, k) == {i \in DOMAIN list : KeyOf(list[i]) = k}
SingleProcess == \A i \in DOMAIN store_log : store_log[i].p = 1
StartsEmpty == file0 \in {Absent, Stored(<<>>)}

(* C24: when one process has made all the save_account calls on a store     *)
(* that was absent or empty, and no write was cut short, the file holds,    *)
(* for every key (identifier, api_url without trailing slashes) that was    *)
(* saved, exactly one record, which is the account of the latest save for   *)
(* that key with its access_token and client_token, and it holds no record  *)
(* of another key.                                                          *)
C24_OneRecordPerKey ==
    (SingleProcess /\ StartsEmpty /\ Events("write_torn") = <<>>) =>
        IF Upserted = <<>>
        THEN accounts_file = file0
        ELSE /\ accounts_file.tag = "list"
             /\ \A k \in UpsertedKeys :
                    /\ Cardinality(RecordsOf(accounts_file.val, k)) = 1
                    /\ \A i \in RecordsOf(accounts_file.val, k) :
                           accounts_file.val[i] = LatestUpsert(k)
             /\ \A i \in DOMAIN accounts_file.val :
                    KeyOf(accounts_file.val[i]) \in UpsertedKeys

(* one key saved twice, its api_url spelled with and without the slash *)
C24_Witness_SlashAndNoSlash ==
    /\ SingleProcess /\ StartsEmpty
    /\ Len(Upserted) = 2
    /\ Upserted[1].account = StoredAccount("steve", <<"a">>, 1)
    /\ Upserted[2].account = StoredAccount("steve", <<"a", SLASH>>, 2)
    /\ accounts_file = Stored(<<StoredAccount("steve", <<"a", SLASH>>, 2)>>)

WroteNow(p) ==
    /\ store_proc[p].pc = "write"
    /\ store_proc'[p].pc = "idle"
    /\ store_log' = Append(store_log, StoreEvent(p, "write", store_proc[p].account))
OtherRecords(list, a) ==
    SelectSeq(list, LAMBDA b : KeyOf(b) # KeyOf(a))

(* C25: a save_account(a) that writes leaves in the file the records it     *)
(* loaded whose key differs from a's, unchanged and in their order, then a  *)
(* as the last element; with one process what it loaded is what the file    *)
(* held until the write.                                                    *)
C25_OthersKeptThenAccount ==
    [][\A p \in Procs : WroteNow(p) =>
          /\ accounts_file' = Stored(OtherRecords(store_proc[p].loaded,
                                                  store_proc[p].account)
                                     \o <<store_proc[p].account>>)
          /\ SingleProcess' =>
                load_accounts(accounts_file) = Ok(store_proc[p].loaded)]_vars

(* an account that was first of two is saved again and is now the last *)
C25_Witness_UpdatedMovesToEnd ==
    /\ file0 = Stored(<<StoredAccount("steve", <<"a", SLASH>>, 1),
                        StoredAccount("Steve", <<"a">>, 1)>>)
    /\ Len(Upserted) = 1
    /\ accounts_file = Stored(<<StoredAccount("Steve", <<"a">>, 1),
                                StoredAccount("steve", <<"a">>, 2)>>)

FindStep ==
    /\ store_calls' = store_calls + 1
    /\ store_log' = store_log
    /\ store_last'.op = "find"
Matching(list, identifier, url) ==
    {i \in DOMAIN list :
        /\ list[i].identifier = identifier
        /\ trim_end_matches(list[i].api_url, SLASH) = trim_end_matches(url, SLASH)}
Least(S) == CHOOSE i \in S : \A j \in S : i <= j

(* C26: find_account_by_identifier(identifier, api_url) returns the first   *)
(* account of the file, in its order, whose identifier is the queried one   *)
(* character for character and whose api_url equals the queried one once    *)
(* the trailing slashes of both are removed; None when there is none; and   *)
(* the file is the same after the call. When the file cannot be loaded the  *)
(* call returns that error.                                                 *)
C26_FirstMatchOrNone ==
    [][FindStep =>
        LET q == store_last'
            loaded == load_accounts(accounts_file)
        IN  /\ accounts_file' = accounts_file
            /\ IF loaded.tag = "err" THEN q.out = loaded
               ELSE LET hits == Matching(loaded.val, q.identifier, q.api_url) IN
                    IF hits = {} THEN q.out = Ok(None)
                    ELSE q.out = Ok(Some(loaded.val[Least(hits)]))]_vars

(* two records of one key: the earlier is returned, slashes aside *)
C26_Witness_FirstOfTwoRecords ==
    /\ store_last.op = "find"
    /\ store_log = <<>>
    /\ Len(accounts_file.val) = 3
    /\ store_last.identifier = "steve"
    /\ store_last.api_url = <<"a", SLASH, SLASH>>
    /\ store_last.out = Ok(Some(StoredAccount("steve", <<"a">>, 1)))
    /\ accounts_file.val[3] = StoredAccount("steve", <<"a", SLASH>>, 2)

EventAt(p, ev) ==
    CHOOSE i \in DOMAIN store_log : store_log[i].p = p /\ store_log[i].ev = ev
InFile(a) ==
    /\ accounts_file.tag = "list"
    /\ \E i \in DOMAIN accounts_file.val : accounts_file.val[i] = a
InFile0(a) ==
    /\ file0.tag = "list"
    /\ \E i \in DOMAIN file0.val : file0.val[i] = a
(* two processes have each saved one account, of different keys, and both   *)
(* calls returned Ok                                                        *)
TwoSaves ==
    /\ Len(store_log) = 4
    /\ Len(Events("load")) = 2
    /\ Len(Upserted) = 2
    /\ Upserted[1].p # Upserted[2].p
    /\ KeyOf(Upserted[1].account) # KeyOf(Upserted[2].account)

(* C27: when two processes have each saved an account, of different keys,   *)
(* the file holds the account of the one that wrote last, and the account   *)
(* of the one that wrote first is there only if the last writer loaded the  *)
(* file after that write: when both loaded before either wrote the first    *)
(* account is lost, which is the interleaving the witness reaches.          *)
C27_LastWriterWins ==
    TwoSaves =>
        /\ InFile(Upserted[2].account)
        /\ ~InFile0(Upserted[1].account) =>
             (InFile(Upserted[1].account) <=>
                 EventAt(Upserted[1].p, "write") < EventAt(Upserted[2].p, "load"))

(* both calls returned Ok and the file has one account *)
C27_Witness_LostUpdate ==
    /\ TwoSaves
    /\ StartsEmpty
    /\ \A p \in Procs : store_proc[p].pc = "idle" /\ store_proc[p].out = Ok(<<>>)
    /\ Len(accounts_file.val) = 1
    /\ ~InFile(Upserted[1].account)

WriteStep ==
    \E p \in Procs :
        /\ store_proc[p].pc = "write"
        /\ store_proc'[p].pc = "idle"
        /\ Len(store_log') = Len(store_log) + 1
        /\ store_log'[Len(store_log')].p = p
        /\ store_log'[Len(store_log')].ev \in {"write", "write_torn"}

(* C28: accounts.json changes only in the write of save_accounts, called by *)
(* save_account: a step of resolve_api_url, get_api_metadata, authenticate, *)
(* validate, refresh, invalidate, find_account_by_identifier, load_accounts *)
(* or the loading half of save_account leaves it as it was, whatever the    *)
(* outcome of the call.                                                     *)
C28_OnlySaveWritesTheFile ==
    [][accounts_file' # accounts_file => WriteStep]_vars

(* a refresh was refused beside a file of accounts, which is as it was *)
C28_Witness_FileAfterFailedCall ==
    /\ ygg_calls = 2
    /\ ygg_last.op = "refresh"
    /\ ygg_last.out.tag = "err"
    /\ Len(ygg_log) = 2
    /\ accounts_file = file0
    /\ accounts_file.tag = "list"
    /\ Len(accounts_file.val) = 3

(* ------------------------------------------------------------------------ *)
(* authlib-injector                                                         *)
FetchStep == jar_calls' = jar_calls + 1

(* C29: when a file exists at cache_dir/authlib-injector.jar, whatever it   *)
(* holds, get_or_download returns its path, requests nothing (neither the   *)
(* metadata endpoint nor a download url) and leaves the file as it is.      *)
C29_CachedJarReturnedAtOnce ==
    [][(FetchStep /\ jar_file.tag = "file") =>
          /\ jar_last'.out = Ok(JarPath)
          /\ jar_last'.requests = <<>>
          /\ jar_log' = jar_log
          /\ jar_file' = jar_file]_vars

(* the first call downloaded the jar, the second returned it with no request *)
C29_Witness_SecondCallCached ==
    /\ jar_calls = 2
    /\ jar_log = <<LatestUrl, ArtifactUrl>>
    /\ jar_last.cached = Jar("complete")
    /\ jar_last.requests = <<>>
    /\ jar_last.out = Ok(JarPath)
    /\ jar_file = Jar("complete")

UsableLatest(latest) ==
    /\ latest.status \in 200..299
    /\ latest.body.kind = "string"
Uncached == jar_last.out # Idle /\ jar_last.cached = NoJar /\ jar_last.dirs

(* C30: with no cached file (and the cache directory created), the call     *)
(* asks the metadata endpoint, then requests the download: from the         *)
(* download_url of the answer when the answer is 2xx JSON with a string     *)
(* download_url, and from the mirror url in every other case (no response,  *)
(* a status that is not 2xx, a body that is not JSON, JSON with no string   *)
(* download_url).                                                           *)
C30_MirrorInEveryOtherCase ==
    Uncached =>
        /\ Len(jar_last.requests) = 2
        /\ jar_last.requests[1] = LatestUrl
        /\ jar_last.requests[2] =
              IF UsableLatest(jar_last.latest)
              THEN jar_last.latest.body.download_url
              ELSE MirrorUrl

SaveStarts(p) ==
    /\ store_calls' = store_calls + 1
    /\ Len(store_log') = Len(store_log) + 1
    /\ store_log'[Len(store_log')].p = p
    /\ store_log'[Len(store_log')].ev \in {"load", "load_failed"}

(* C34: a save_account that cannot load accounts.json (the file cannot be   *)
(* read, or is not a JSON array of accounts) returns the error of the load  *)
(* and never reaches the write, so the file is as it was; a save_account    *)
(* that writes where no file was leaves a file holding the new account and  *)
(* nothing else, and returns Ok.                                            *)
C34_LoadFailureWritesNothing ==
    [][\A p \in Procs :
        /\ (SaveStarts(p) /\ load_accounts(accounts_file).tag = "err") =>
              /\ accounts_file' = accounts_file
              /\ store_proc'[p].pc = "idle"
              /\ store_proc'[p].out = load_accounts(accounts_file)
        /\ (WroteNow(p) /\ accounts_file = Absent) =>
              /\ accounts_file' = Stored(<<store_proc[p].account>>)
              /\ store_proc'[p].out = Ok(<<>>)]_vars

(* two saves on a file that is not JSON: both failed, the file is as found *)
C34_Witness_UndecodableFileKept ==
    /\ file0 = NotJson
    /\ accounts_file = NotJson
    /\ Len(Events("load_failed")) = 2
    /\ Len(store_log) = 2
    /\ store_proc[1].out.tag = "err"
    /\ store_proc[1].out.kind = "decode"

(* C35: in a run that began with no file at the cache path, a call that     *)
(* did not return the path leaves no file there, and a call that returned   *)
(* the path without a request returned a completely written file.           *)
C35_CachedJarIsComplete ==
    /\ (jar_last.cached = NoJar /\ jar_last.out.tag = "err") => jar_file = NoJar
    /\ (jar_log # <<>> /\ jar_last.requests = <<>> /\ jar_last.out = Ok(JarPath)) =>
          jar_file = Jar("complete")

(* ------------------------------------------------------------------------ *)
(* the identityToken                                                        *)
(* C36: the identityToken of the Minecraft login request is made of the     *)
(* Token of the XSTS response and the first user hash of the XBL response;  *)
(* the user hash of the XSTS response is in no request, also when it is     *)
(* another one than that of the XBL response.                               *)
C36_IdentityTokenParts ==
    HasEvent("mc_login") =>
        LET sent == EventOf("mc_login")
            xbl_body == EventOf("xbl").res.body.val
            xsts_body == EventOf("xsts").res.body.val
        IN  /\ sent.identity_token = xsts_body.token
            /\ sent.identity_user_hash = xbl_body.xui[1]
            /\ xsts_body.xui[1] # xbl_body.xui[1] =>
                  sent.identity_user_hash # xsts_body.xui[1]

C36_Witness_TwoDifferentHashes ==
    /\ HasEvent("mc_login")
    /\ EventOf("xbl").res.body.val.xui = <<"uhs-xbl">>
    /\ EventOf("xsts").res.body.val.xui = <<"uhs-xsts">>
    /\ EventOf("mc_login").identity_user_hash = "uhs-xbl"
    /\ pc = "done"
    /\ result.tag = "ok"

(* ------------------------------------------------------------------------ *)
(* external_login                                                           *)
ElOps == [i \in DOMAIN el_trace |-> el_trace[i].op]
ElOrder ==
    <<"resolve_api_url", "get_api_metadata", "authenticate", "from_auth_response",
      "save_account">>
ElOrderSelecting ==
    <<"resolve_api_url", "get_api_metadata", "authenticate", "from_auth_response",
      "select_profile", "save_account">>
IsPrefix(a, b) == Len(a) <= Len(b) /\ a = SubSeq(b, 1, Len(a))
ElCalled(op) == \E i \in DOMAIN el_trace : el_trace[i].op = op
ElFailedAt(stages) ==
    /\ el_pc = "done"
    /\ el.out.tag = "err"
    /\ el.out.stage \in stages
ElRequestOf(op) == el_trace[CHOOSE i \in DOMAIN el_trace : el_trace[i].op = op].arg

ElNoUser ==
    /\ ElCalled("from_auth_response")
    /\ el.auth_response.user = None

EntryOf(read, n) ==
    IF read.kind # "line" THEN 0
    ELSE LET num == parse_usize(trim_whitespace(read.text)) IN
         IF num.tag = "some" /\ num.val \in 1..n THEN num.val ELSE 0
ValidReads == {i \in DOMAIN sel.reads : EntryOf(sel.reads[i], Len(sel.profiles)) > 0}
FailedReads == {i \in DOMAIN sel.reads : sel.reads[i].kind # "line"}

MsaLaunchEnded ==
    /\ cmd.name = "launch"
    /\ cmd.pc = "exited"
    /\ cmd.launched = None \/ cmd.launched.val.user_type = "msa"
CompleteSession ==
    /\ cache_file.tag = "session"
    /\ cache_file.val.access_token # ""
    /\ cache_file.val.uuid # <<>>
    /\ cache_file.val.username # ""
NoSessionToUse ==
    \/ cache_file.tag = "absent"
    \/ cache_file.tag = "session" /\ ~CompleteSession

(* C32: launch --auth-type msa calls launch_game only with a cache file     *)
(* whose access_token, uuid and username are all non-empty, and with those  *)
(* three values; when the file is absent or one of the fields is empty the  *)
(* command prints AuthNotFound, exits with 1 and launch_game is not called. *)
(* A file that cannot be read or decoded ends the command with that error,  *)
(* launch_game not called either.                                           *)
C32_MsaLaunchNeedsSession ==
    MsaLaunchEnded =>
        /\ cmd.launched # None <=> CompleteSession
        /\ cmd.launched # None =>
              /\ cmd.launched.val.username = cache_file.val.username
              /\ cmd.launched.val.access_token = cache_file.val.access_token
              /\ cmd.launched.val.uuid = cache_file.val.uuid
        /\ NoSessionToUse =>
              /\ cmd.report = "AuthNotFound"
              /\ cmd.exit = 1
        /\ cache_file.tag \in {"unreadable", "not_json"} =>
              /\ cmd.report = "error"
              /\ cmd.exit = 1

(* a cache with token and uuid but an empty username *)
C32_Witness_EmptyUsername ==
    /\ MsaLaunchEnded
    /\ cache_file = CacheFile([access_token |-> "old-token", uuid |-> ExampleUuid,
                               username |-> ""])
    /\ cmd.report = "AuthNotFound"
    /\ cmd.launched = None

LoginEnded == cmd.name = "login" /\ cmd.pc = "exited"

(* C33: the login command writes auth_cache.json only when the whole chain  *)
(* has returned a session, and then it is that session; when a step of the  *)
(* chain failed the command ends with a message and an exit status that is  *)
(* not 0 and the cache file of before is as it was.                         *)
C33_CacheWrittenAfterChain ==
    cmd.name = "login" =>
        /\ cache_file # CacheFile(OldSession) =>
              /\ LoginEnded
              /\ result.tag = "ok"
              /\ HasEvent("profile")
        /\ (LoginEnded /\ result.tag # "ok") =>
              /\ cmd.exit # 0
              /\ cmd.report # ""
              /\ cache_file = CacheFile(OldSession)
        /\ (LoginEnded /\ cmd.exit = 0) =>
              /\ result.tag = "ok"
              /\ cache_file = CacheFile(result.val)

(* XSTS refused the account: status 1, the earlier session still cached *)
C33_Witness_XstsFailureKeepsCache ==
    /\ LoginEnded
    /\ result.tag = "err"
    /\ result.stage = "xsts"
    /\ cmd.exit = 1
    /\ cache_file = CacheFile(OldSession)

(* ------------------------------------------------------------------------ *)
(* install_version                                                          *)
InstFailedTasks == {k \in inst.tasks : inst.results[k] = "Err"}

(* C39: install_version writes the version JSON and reports the version    *)
(* installed only if every download task of the run has succeeded; a        *)
(* failed client, library, native or asset download makes it return Err.   *)
C39_InstalledOnlyIfAllDownloaded ==
    /\ (inst.json = "written" \/ inst.reported) => InstFailedTasks = {}
    /\ (inst.pc = "done" /\ InstFailedTasks # {}) => inst.ret = "Err"
====
